---------------------------- MODULE Spec2Model ----------------------------
(***************************************************************************)
(* A model of the relevance-scoring file search of opencontext             *)
(* (src/src/search.ts, tables from the types module).                      *)
(*                                                                         *)
(* Strings are sequences of one-character strings, so that the string      *)
(* operations of the code (toLowerCase, includes, split, basename, the     *)
(* regular expressions) are computed character by character.  Scores and   *)
(* contributions are kept in halves of a point, because the weights of the *)
(* code produce multiples of 0.5 (22.5, 2.5) and Math.round decides on     *)
(* them; every such product is exact in IEEE double arithmetic.            *)
(***************************************************************************)
EXTENDS Integers, Sequences, FiniteSets, TLC

VARIABLES
    options,      \* the SearchOptions the caller passed to searchFiles
    files,        \* the candidate list the traversal collaborator returned
    idx,          \* position of the for-loop of searchFiles in files
    matches,      \* the matches array of searchFiles
    skipped,      \* candidates the loop left by continue or by catch
    result,       \* the SearchResult, once returned
    pc            \* "glob" | "loop" | "done" | "rejected"

\* The specifications of the exported functions called on their own
\* (parseQuery, the classifiers, calculateFilenameScore) keep the arguments
\* of the call in options and what the call returns in result; pc tells
\* whether the call has been made.

vars == <<options, files, idx, matches, skipped, result, pc>>

----------------------------------------------------------------------------
(* Strings *)

\* a TLA+ string as the sequence of its characters
S(str) == [i \in 1..Len(str) |-> SubSeq(str, i, i)]

UpperChars == S("ABCDEFGHIJKLMNOPQRSTUVWXYZ")
LowerChars == S("abcdefghijklmnopqrstuvwxyz")
DigitChars == S("0123456789")

\* the characters \s of a JavaScript regular expression matches (ASCII part)
WhiteSpace == {" ", "\t", "\n", "\r", "\f"}

\* the characters \w matches
WordChars == {UpperChars[i] : i \in 1..26} \cup {LowerChars[i] : i \in 1..26}
             \cup {DigitChars[i] : i \in 1..10} \cup {"_"}

ToLowerChar(c) ==
    IF \E i \in 1..26 : UpperChars[i] = c
    THEN LowerChars[CHOOSE i \in 1..26 : UpperChars[i] = c]
    ELSE c

\* String.prototype.toLowerCase
ToLower(s) == [i \in 1..Len(s) |-> ToLowerChar(s[i])]

\* s.startsWith(p, at-1): p occurs in s at index at (1-based)
OccursAt(s, p, at) ==
    /\ at >= 1
    /\ at + Len(p) - 1 <= Len(s)
    /\ \A k \in 1..Len(p) : s[at + k - 1] = p[k]

StartsWith(s, p) == OccursAt(s, p, 1)

\* String.prototype.includes
Includes(s, p) == \E at \in 1..(Len(s) - Len(p) + 1) : OccursAt(s, p, at)

Min(a, b) == IF a <= b THEN a ELSE b
Max(a, b) == IF a >= b THEN a ELSE b

\* Array.prototype.includes
Contains(seq, x) == \E i \in 1..Len(seq) : seq[i] = x

\* [...new Set(seq)]: the distinct elements in the order of first occurrence
RECURSIVE DedupFrom(_, _, _)
DedupFrom(seq, i, acc) ==
    IF i > Len(seq) THEN acc
    ELSE DedupFrom(seq, i + 1,
                   IF Contains(acc, seq[i]) THEN acc ELSE Append(acc, seq[i]))

\* the list as it is, repeated entries included
Dedup_None(seq) == seq

Dedup(seq) == DedupFrom(seq, 1, <<>>)

\* the concatenation of a sequence of sequences
RECURSIVE Flatten(_)
Flatten(ss) == IF ss = <<>> THEN <<>> ELSE Head(ss) \o Flatten(Tail(ss))

\* s.split(sep) for a one-character separator: the pieces between separators
RECURSIVE SplitFrom(_, _, _, _, _)
SplitFrom(s, seps, i, cur, acc) ==
    IF i > Len(s) THEN Append(acc, cur)
    ELSE IF s[i] \in seps
         THEN SplitFrom(s, seps, i + 1, <<>>, Append(acc, cur))
         ELSE SplitFrom(s, seps, i + 1, Append(cur, s[i]), acc)

SplitOn(s, seps) == SplitFrom(s, seps, 1, <<>>, <<>>)

\* s.split(/\s+/).filter(w => w.length > 0): the maximal runs of
\* non-whitespace characters
SplitWords(s) == SelectSeq(SplitOn(s, WhiteSpace), LAMBDA w : Len(w) > 0)

\* String.prototype.trim
RECURSIVE TrimLeft(_)
TrimLeft(s) ==
    IF s # <<>> /\ Head(s) \in WhiteSpace THEN TrimLeft(Tail(s)) ELSE s

RECURSIVE TrimRight(_)
TrimRight(s) ==
    IF s # <<>> /\ s[Len(s)] \in WhiteSpace
    THEN TrimRight(SubSeq(s, 1, Len(s) - 1)) ELSE s

Trim(s) == TrimRight(TrimLeft(s))

\* the largest index of character c in s, 0 when there is none
LastIndexOf(s, c) ==
    IF \E i \in 1..Len(s) : s[i] = c
    THEN CHOOSE i \in 1..Len(s) : s[i] = c /\ \A j \in (i + 1)..Len(s) : s[j] # c
    ELSE 0

\* path.basename(p) (POSIX; candidate paths do not end in a slash)
Basename(p) == SubSeq(p, LastIndexOf(p, "/") + 1, Len(p))

\* path.extname(p): from the last '.' of the basename, '' when there is none
\* or when it is the first character of the basename
Extname(p) ==
    LET b == Basename(p)
        d == LastIndexOf(b, ".")
    IN  IF d <= 1 THEN <<>> ELSE SubSeq(b, d, Len(b))

\* path.basename(p, ext): the basename without a trailing ext
BasenameNoExt(p) ==
    LET b == Basename(p)
        e == Extname(p)
    IN  IF e # <<>> /\ Len(e) < Len(b) THEN SubSeq(b, 1, Len(b) - Len(e)) ELSE b

\* path.dirname(p)
Dirname(p) ==
    LET k == LastIndexOf(p, "/")
    IN  IF k = 0 THEN S(".")
        ELSE IF k = 1 THEN S("/")
        ELSE SubSeq(p, 1, k - 1)

----------------------------------------------------------------------------
(* The fixed tables of the types module *)

\* DEFAULT_WEIGHTS
W_filename == 25
W_filepath == 20
W_content == 15
W_export == 20
W_function == 15
W_class == 15
W_comment == 5
W_config == 18
W_test == 12

\* the literal bonuses of calculateMetadataScore
TypeBonus == 10
DocBonus == 8

\* the ceiling of calculateFileScore and the size under which it scores content
ScoreCeiling == 100
ContentSizeLimit == 1048576

\* the defaults of searchFiles
DefaultMaxFiles == 10
DefaultMinScore == 15
DefaultMaxFileSize == 1048576
DefaultMaxSnippetsPerFile == 3

\* LANGUAGE_EXTENSIONS, in the order of the object's keys
LANGUAGE_EXTENSIONS == <<
    [lang |-> S("typescript"), exts |-> <<S(".ts"), S(".tsx"), S(".mts"), S(".cts")>>],
    [lang |-> S("javascript"), exts |-> <<S(".js"), S(".jsx"), S(".mjs"), S(".cjs")>>],
    [lang |-> S("python"),     exts |-> <<S(".py"), S(".pyi"), S(".pyw")>>],
    [lang |-> S("rust"),       exts |-> <<S(".rs")>>],
    [lang |-> S("go"),         exts |-> <<S(".go")>>],
    [lang |-> S("java"),       exts |-> <<S(".java")>>],
    [lang |-> S("csharp"),     exts |-> <<S(".cs")>>],
    [lang |-> S("ruby"),       exts |-> <<S(".rb")>>],
    [lang |-> S("php"),        exts |-> <<S(".php")>>],
    [lang |-> S("swift"),      exts |-> <<S(".swift")>>],
    [lang |-> S("kotlin"),     exts |-> <<S(".kt"), S(".kts")>>],
    [lang |-> S("c"),          exts |-> <<S(".c"), S(".h")>>],
    [lang |-> S("cpp"),        exts |-> <<S(".cpp"), S(".cc"), S(".cxx"), S(".hpp"), S(".h")>>],
    [lang |-> S("shell"),      exts |-> <<S(".sh"), S(".bash"), S(".zsh"), S(".fish")>>],
    [lang |-> S("markdown"),   exts |-> <<S(".md"), S(".mdx")>>],
    [lang |-> S("json"),       exts |-> <<S(".json")>>],
    [lang |-> S("yaml"),       exts |-> <<S(".yaml"), S(".yml")>>],
    [lang |-> S("html"),       exts |-> <<S(".html"), S(".htm")>>],
    [lang |-> S("css"),        exts |-> <<S(".css"), S(".scss"), S(".sass"), S(".less")>>],
    [lang |-> S("sql"),        exts |-> <<S(".sql")>>],
    [lang |-> S("docker"),     exts |-> <<S(".dockerfile"), S("Dockerfile")>>],
    [lang |-> S("config"),     exts |-> <<S(".toml"), S(".ini"), S(".conf"), S(".cfg")>>] >>

TEST_PATTERNS == <<
    S("*.test.*"), S("*.spec.*"), S("*_test.*"), S("*_spec.*"), S("test_*"),
    S("tests/**"), S("__tests__/**"), S("spec/**"), S("e2e/**"), S("integration/**") >>

CONFIG_PATTERNS == <<
    S("*.config.*"), S(".config/**"), S("config/**"), S("configs/**"),
    S(".*rc*"), S(".*rc") >>

DOC_PATTERNS == <<
    S("*.md"), S("*.mdx"), S("README*"), S("CHANGELOG*"), S("CONTRIBUTING*"),
    S("LICENSE*"), S("docs/**"), S("doc/**"), S("documentation/**") >>

----------------------------------------------------------------------------
(* parseQuery *)

\* A query value is [t |-> its JavaScript type, s |-> its characters]; the
\* caller may pass a value that is no string.
IsFalsy(query) ==
    \/ query.t \in {"undefined", "null"}
    \/ query.t = "string" /\ query.s = <<>>
    \/ query.t = "number" /\ query.s = S("0")

\* index of the first '"' of s at or after i, 0 when there is none
NextQuote(s, i) ==
    IF \E j \in i..Len(s) : s[j] = "\""
    THEN CHOOSE j \in i..Len(s) : s[j] = "\"" /\ \A k \in i..(j - 1) : s[k] # "\""
    ELSE 0

\* query.match(/"([^"]+)"/g): the spans <<first, last>> of the matches, found
\* left to right without overlap
RECURSIVE QuotedSpans(_, _)
QuotedSpans(s, i) ==
    IF i > Len(s) THEN <<>>
    ELSE IF s[i] # "\"" THEN QuotedSpans(s, i + 1)
    ELSE LET j == NextQuote(s, i + 1)
         IN  IF j > i + 1 THEN <<(<<i, j>>)>> \o QuotedSpans(s, j + 1)
             ELSE QuotedSpans(s, i + 1)

\* the quoted spans are left in the query
BlankSpans_Keep(s, spans, i) == s

\* query.replace(/"[^"]+"/g, ' ')
RECURSIVE BlankSpans(_, _, _)
BlankSpans(s, spans, i) ==
    IF i > Len(s) THEN <<>>
    ELSE IF spans # <<>> /\ Head(spans)[1] = i
         THEN <<" ">> \o BlankSpans(s, Tail(spans), Head(spans)[2] + 1)
         ELSE <<s[i]>> \o BlankSpans(s, spans, i + 1)

typeIndicators == <<S("file"), S("files"), S("type"), S("extension"), S("ext")>>
testIndicators == <<S("test"), S("tests"), S("spec"), S("specs"), S("testing")>>
configIndicators == <<S("config"), S("configuration"), S("settings"), S("setting")>>
docIndicators == <<S("doc"), S("docs"), S("documentation"), S("readme")>>

\* indicators.some(t => lowerQuery.includes(t))
SomeIncluded(indicators, lowerQuery) ==
    \E i \in 1..Len(indicators) : Includes(lowerQuery, indicators[i])

\* original: query, without the || ''
EmptyParsedQuery_Raw(query) ==
    [ original    |-> query,
      terms       |-> <<>>,
      exactTerms  |-> <<>>,
      fileTypes   |-> <<>>,
      wantTests   |-> FALSE,
      wantConfigs |-> FALSE,
      wantDocs    |-> FALSE ]

\* the early return; original is query || '': the value passed, or the empty
\* string when that value is falsy
EmptyParsedQuery(query) ==
    [ original    |-> IF IsFalsy(query) THEN [t |-> "string", s |-> <<>>]
                      ELSE query,
      terms       |-> <<>>,
      exactTerms  |-> <<>>,
      fileTypes   |-> <<>>,
      wantTests   |-> FALSE,
      wantConfigs |-> FALSE,
      wantDocs    |-> FALSE ]

parseQuery(query) ==
    IF IsFalsy(query) \/ query.t # "string" THEN EmptyParsedQuery(query)
    ELSE
    LET q == query.s
        lowerQuery == ToLower(q)
        spans == QuotedSpans(q, 1)
        exactTerms == [k \in 1..Len(spans) |->
                         ToLower(SubSeq(q, spans[k][1] + 1, spans[k][2] - 1))]
        cleanQuery == BlankSpans(q, spans, 1)
        words == SplitWords(ToLower(cleanQuery))
        dotted == SelectSeq(words, LAMBDA w : StartsWith(w, S(".")))
        terms == SelectSeq(words, LAMBDA w :
                     ~StartsWith(w, S(".")) /\ ~Contains(typeIndicators, w))
        langTypes == Flatten([k \in 1..Len(LANGUAGE_EXTENSIONS) |->
                        IF Includes(lowerQuery, LANGUAGE_EXTENSIONS[k].lang)
                        THEN LANGUAGE_EXTENSIONS[k].exts ELSE <<>>])
    IN  [ original    |-> query,
          terms       |-> Dedup(terms),
          exactTerms  |-> Dedup(exactTerms),
          fileTypes   |-> Dedup(dotted \o dotted \o langTypes),
          wantTests   |-> SomeIncluded(testIndicators, lowerQuery),
          wantConfigs |-> SomeIncluded(configIndicators, lowerQuery),
          wantDocs    |-> SomeIncluded(docIndicators, lowerQuery) ]

----------------------------------------------------------------------------
(* Regular expressions *)

(***************************************************************************)
(* The code builds regular expressions from glob patterns and from query   *)
(* terms (new RegExp(term)), so a character of a term means what the       *)
(* RegExp syntax makes of it.  The model covers the syntax that the        *)
(* patterns and the queries of QueryPool use: a literal character, '.'     *)
(* (any character but a line terminator), the postfix quantifiers '*' and  *)
(* '+' (greedy), and '(' which, with no ')' in the alphabet, is an         *)
(* unterminated group: the constructor throws a SyntaxError, as it does    *)
(* for a quantifier with nothing to repeat.  A compiled expression is a    *)
(* sequence of atoms [k, c, q]: k the kind, c the literal, q the           *)
(* quantifier ("1", "*", "+").                                             *)
(***************************************************************************)
Lit(c)  == [k |-> "lit",   c |-> c,   q |-> "1"]
AnyCh   == [k |-> "any",   c |-> "",  q |-> "1"]
NotNl   == [k |-> "notnl", c |-> "",  q |-> "1"]
Ws      == [k |-> "ws",    c |-> "",  q |-> "1"]
WordB   == [k |-> "wordb", c |-> "",  q |-> "1"]
Star(a) == [a EXCEPT !.q = "*"]
Plus(a) == [a EXCEPT !.q = "+"]

Lits(s) == [i \in 1..Len(s) |-> Lit(s[i])]

\* the parse of new RegExp(src): ok = FALSE when the constructor throws
RECURSIVE ParseRegexFrom(_, _, _)
ParseRegexFrom(src, i, acc) ==
    IF i > Len(src) THEN [ok |-> TRUE, atoms |-> acc]
    ELSE IF src[i] = "(" THEN [ok |-> FALSE, atoms |-> <<>>]
    ELSE IF src[i] \in {"*", "+"}
         THEN IF acc = <<>> \/ acc[Len(acc)].q # "1"
              THEN [ok |-> FALSE, atoms |-> <<>>]
              ELSE ParseRegexFrom(src, i + 1,
                       [acc EXCEPT ![Len(acc)].q = src[i]])
    ELSE ParseRegexFrom(src, i + 1,
             Append(acc, IF src[i] = "." THEN AnyCh ELSE Lit(src[i])))

ParseRegex(src) == ParseRegexFrom(src, 1, <<>>)

\* whether atom a accepts character ch (icase: the 'i' flag)
Accepts(a, ch, icase) ==
    CASE a.k = "lit"   -> IF icase THEN ToLowerChar(ch) = ToLowerChar(a.c)
                          ELSE ch = a.c
      [] a.k = "any"   -> ch \notin {"\n", "\r"}
      [] a.k = "notnl" -> ch # "\n"
      [] a.k = "ws"    -> ch \in WhiteSpace
      [] OTHER         -> FALSE

\* \b at position i: exactly one of s[i-1], s[i] is a word character
AtWordBoundary(s, i) ==
    LET before == i > 1 /\ s[i - 1] \in WordChars
        after  == i <= Len(s) /\ s[i] \in WordChars
    IN  before # after

\* the number of consecutive characters of s from i that atom a accepts
RECURSIVE RunLen(_, _, _, _)
RunLen(a, s, i, icase) ==
    IF i <= Len(s) /\ Accepts(a, s[i], icase)
    THEN 1 + RunLen(a, s, i + 1, icase)
    ELSE 0

\* backtracking match of atoms[k..] at position i of s: the index after the
\* match the engine finds first (greedy quantifiers), 0 when there is none
RECURSIVE MatchFrom(_, _, _, _, _)
RECURSIVE TryRuns(_, _, _, _, _, _, _)
MatchFrom(atoms, k, s, i, icase) ==
    IF k > Len(atoms) THEN i
    ELSE LET a == atoms[k]
         IN  IF a.k = "wordb"
             THEN IF AtWordBoundary(s, i)
                  THEN MatchFrom(atoms, k + 1, s, i, icase) ELSE 0
             ELSE IF a.q = "1"
             THEN IF i <= Len(s) /\ Accepts(a, s[i], icase)
                  THEN MatchFrom(atoms, k + 1, s, i + 1, icase) ELSE 0
             ELSE TryRuns(atoms, k, s, i, RunLen(a, s, i, icase),
                          IF a.q = "+" THEN 1 ELSE 0, icase)

TryRuns(atoms, k, s, i, n, least, icase) ==
    IF n < least THEN 0
    ELSE LET e == MatchFrom(atoms, k + 1, s, i + n, icase)
         IN  IF e # 0 THEN e
             ELSE TryRuns(atoms, k, s, i, n - 1, least, icase)

\* RegExp.prototype.test for an unanchored expression
RegexTest(atoms, s, icase) ==
    \E i \in 1..(Len(s) + 1) : MatchFrom(atoms, 1, s, i, icase) # 0

\* (s.match(regex with flag g) || []).length: the matches found left to
\* right; after an empty match the search moves on by one character
RECURSIVE CountMatches(_, _, _)
CountMatches(atoms, s, i) ==
    IF i > Len(s) + 1 THEN 0
    ELSE LET e == MatchFrom(atoms, 1, s, i, FALSE)
         IN  IF e = 0 THEN CountMatches(atoms, s, i + 1)
             ELSE 1 + CountMatches(atoms, s, IF e = i THEN i + 1 ELSE e)

----------------------------------------------------------------------------
(* File classifiers *)

\* pattern.replace(/\*/g, '.*')
GlobToRegexSource(pattern) ==
    Flatten([i \in 1..Len(pattern) |->
                IF pattern[i] = "*" THEN S(".*") ELSE <<pattern[i]>>])

\* patterns.some(pattern => regex.test(name) || regex.test(path.toLowerCase()))
MatchesAnyPattern(patterns, filePath) ==
    LET name == ToLower(Basename(filePath))
    IN  \E i \in 1..Len(patterns) :
            LET regex == ParseRegex(GlobToRegexSource(patterns[i])).atoms
            IN  \/ RegexTest(regex, name, FALSE)
                \/ RegexTest(regex, ToLower(filePath), FALSE)

isTestFile(filePath) == MatchesAnyPattern(TEST_PATTERNS, filePath)
isConfigFile(filePath) == MatchesAnyPattern(CONFIG_PATTERNS, filePath)
isDocFile(filePath) == MatchesAnyPattern(DOC_PATTERNS, filePath)

\* the language the loop over Object.entries(LANGUAGE_EXTENSIONS) returns for
\* the extension ext: <<lang>> for the first entry from k on whose list
\* includes ext, <<>> (undefined) when the loop ends without returning
RECURSIVE LanguageFrom(_, _)
LanguageFrom(ext, k) ==
    IF k > Len(LANGUAGE_EXTENSIONS) THEN <<>>
    ELSE IF Contains(LANGUAGE_EXTENSIONS[k].exts, ext)
         THEN <<LANGUAGE_EXTENSIONS[k].lang>>
         ELSE LanguageFrom(ext, k + 1)

\* a result that stands "unknown" in for undefined
detectLanguage_Unknown(filePath) ==
    LET found == LanguageFrom(ToLower(Extname(filePath)), 1)
    IN  IF found = <<>> THEN <<S("unknown")>> ELSE found

\* a lookup that keeps the extension's case
detectLanguage_KeepCase(filePath) == LanguageFrom(Extname(filePath), 1)

\* detectLanguage: <<lang>> or <<>> for undefined
detectLanguage(filePath) == LanguageFrom(ToLower(Extname(filePath)), 1)

----------------------------------------------------------------------------
(* extractExports *)

\* the number of consecutive characters of s from i that are in set
RECURSIVE RunOf(_, _, _)
RunOf(s, i, set) ==
    IF i <= Len(s) /\ s[i] \in set THEN 1 + RunOf(s, i + 1, set) ELSE 0

SkipWs(s, i) == i + RunOf(s, i, WhiteSpace)

NoMatch == [end |-> 0, cap |-> <<>>]

exportKinds == <<S("class"), S("interface"), S("type"), S("function"),
                 S("const"), S("let"), S("var")>>

\* /export\s+(?:default\s+)?(?:class|interface|type|function|const|let|var)\s+(\w+)/
\* at position i: the index after the match and its group 1
ExportDeclAt(s, i) ==
    IF ~OccursAt(s, S("export"), i) THEN NoMatch
    ELSE
    LET a == i + 6
        b == SkipWs(s, a)
        c == IF OccursAt(s, S("default"), b) THEN SkipWs(s, b + 7) ELSE b
        okDefault == OccursAt(s, S("default"), b) => c > b + 7
        kinds == {k \in 1..Len(exportKinds) : OccursAt(s, exportKinds[k], c)}
    IN  IF b = a \/ ~okDefault \/ kinds = {} THEN NoMatch
        ELSE LET d == c + Len(exportKinds[CHOOSE k \in kinds : TRUE])
                 e == SkipWs(s, d)
                 f == e + RunOf(s, e, WordChars)
             IN  IF e = d \/ f = e THEN NoMatch
                 ELSE [end |-> f, cap |-> SubSeq(s, e, f - 1)]

\* index of the first character c of s at or after i, 0 when there is none
IndexFrom(s, c, i) ==
    IF \E j \in i..Len(s) : s[j] = c
    THEN CHOOSE j \in i..Len(s) : s[j] = c /\ \A k \in i..(j - 1) : s[k] # c
    ELSE 0

\* /export\s*\{\s*([^}]+)\s*\}/ at position i
ExportListAt(s, i) ==
    IF ~OccursAt(s, S("export"), i) THEN NoMatch
    ELSE
    LET b == SkipWs(s, i + 6)
        close == IndexFrom(s, "}", b + 1)
    IN  IF b > Len(s) \/ s[b] # "{" \/ close <= b + 1 THEN NoMatch
        ELSE LET region == SubSeq(s, b + 1, close - 1)
                 rest == TrimLeft(region)
             IN  [end |-> close + 1,
                  cap |-> IF rest = <<>> THEN <<region[Len(region)]>> ELSE rest]

\* /module\.exports\s*=\s*\{?\s*(\w+)/ at position i
ModuleExportsAt(s, i) ==
    IF ~OccursAt(s, S("module.exports"), i) THEN NoMatch
    ELSE
    LET b == SkipWs(s, i + 14)
        c == SkipWs(s, b + 1)
        d == IF c <= Len(s) /\ s[c] = "{" THEN c + 1 ELSE c
        e == SkipWs(s, d)
        f == e + RunOf(s, e, WordChars)
    IN  IF b > Len(s) \/ s[b] # "=" \/ f = e THEN NoMatch
        ELSE [end |-> f, cap |-> SubSeq(s, e, f - 1)]

\* n.trim().split(/\s+as\s+/)[0].trim()
ExportName(n) ==
    LET tn == Trim(n)
        asRegex == <<Plus(Ws), Lit("a"), Lit("s"), Plus(Ws)>>
        hits == {i \in 1..Len(tn) : MatchFrom(asRegex, 1, tn, i, FALSE) # 0}
    IN  IF hits = {} THEN tn
        ELSE Trim(SubSeq(tn, 1, (CHOOSE i \in hits : \A j \in hits : i <= j) - 1))

\* the names one match pushes: group 1 split on ',', without empty names and
\* names that start with '_'
NamesOf(cap) ==
    LET pieces == SplitOn(cap, {","})
        names == [k \in 1..Len(pieces) |-> ExportName(pieces[k])]
    IN  SelectSeq(names, LAMBDA n : n # <<>> /\ ~StartsWith(n, S("_")))

\* the while ((match = pattern.exec(content)) !== null) loop of one pattern;
\* which: 1, 2, 3 for the three patterns in the order of the array
PatternAt(which, s, i) ==
    CASE which = 1 -> ExportDeclAt(s, i)
      [] which = 2 -> ExportListAt(s, i)
      [] OTHER     -> ModuleExportsAt(s, i)

RECURSIVE ExecLoop(_, _, _)
ExecLoop(which, s, i) ==
    IF i > Len(s) THEN <<>>
    ELSE LET m == PatternAt(which, s, i)
         IN  IF m.end = 0 THEN ExecLoop(which, s, i + 1)
             ELSE NamesOf(m.cap) \o ExecLoop(which, s, m.end)

extractExports(content) ==
    Dedup(ExecLoop(1, content, 1) \o ExecLoop(2, content, 1)
          \o ExecLoop(3, content, 1))

----------------------------------------------------------------------------
(* Sorting and slicing *)

\* Array.prototype.sort with the comparator (a, b) => b[field] - a[field]:
\* a stable sort into non-increasing order of the field
RECURSIVE InsertDesc(_, _, _)
InsertDesc(sorted, x, field) ==
    IF sorted = <<>> THEN <<x>>
    ELSE IF Head(sorted)[field] >= x[field]
         THEN <<Head(sorted)>> \o InsertDesc(Tail(sorted), x, field)
         ELSE <<x>> \o sorted

RECURSIVE SortDescFrom(_, _, _, _)
SortDescFrom(xs, i, acc, field) ==
    IF i > Len(xs) THEN acc
    ELSE SortDescFrom(xs, i + 1, InsertDesc(acc, xs[i], field), field)

\* no sort at all
SortDesc_None(xs, field) == xs

SortDesc(xs, field) == SortDescFrom(xs, 1, <<>>, field)

\* Array.prototype.slice(0, n) for n >= 0
Slice(xs, n) == SubSeq(xs, 1, Min(n, Len(xs)))

----------------------------------------------------------------------------
(* Line snippets *)

\* the set of the entries of a list
Range(xs) == {xs[k] : k \in 1..Len(xs)}

\* text.split(/[^a-zA-Z0-9_]+/): the pieces between characters that are no
\* word characters (a run of separators leaves empty pieces, which the
\* filter of tokenize drops)
RECURSIVE TokensFrom(_, _, _, _)
TokensFrom(s, i, cur, acc) ==
    IF i > Len(s) THEN Append(acc, cur)
    ELSE IF s[i] \in WordChars
         THEN TokensFrom(s, i + 1, Append(cur, s[i]), acc)
         ELSE TokensFrom(s, i + 1, <<>>, Append(acc, cur))

\* the lowercased words of the text that are longer than 2 characters
tokenize(text) ==
    SelectSeq(TokensFrom(ToLower(text), 1, <<>>, <<>>), LAMBDA w : Len(w) > 2)

\* the Map the two forEach loops of buildLineIndex fill, terms[k] being the
\* tokens of line k
LineIndexOf(terms) ==
    LET keys == UNION {Range(terms[k]) : k \in 1..Len(terms)}
    IN  [term \in keys |->
            Flatten([k \in 1..Len(terms) |->
                [j \in 1..Cardinality({j \in 1..Len(terms[k]) : terms[k][j] = term})
                    |-> k]])]

\* the Map from each token to the numbers of the lines it occurs in, one
\* entry per occurrence, in the order of the lines
buildLineIndex(lines) ==
    LineIndexOf([k \in 1..Len(lines) |-> tokenize(lines[k])])

\* Array.from(set).sort((a, b) => a - b)
RECURSIVE SortedAscending(_)
SortedAscending(set) ==
    IF set = {} THEN <<>>
    ELSE LET least == CHOOSE x \in set : \A y \in set : x <= y
         IN  <<least>> \o SortedAscending(set \ {least})

\* two matched lines belong to one cluster when they are at most this far
\* apart
ClusterGap == 3

\* clusters that only hold lines that follow one another directly
ClustersFrom_Adjacent(sortedLines, i, currentCluster, clusters) ==
    LET RECURSIVE from(_, _, _)
        from(k, cur, acc) ==
            IF k > Len(sortedLines) THEN Append(acc, cur)
            ELSE IF sortedLines[k] - sortedLines[k - 1] <= 1
                 THEN from(k + 1, Append(cur, sortedLines[k]), acc)
                 ELSE from(k + 1, <<sortedLines[k]>>, Append(acc, cur))
    IN  from(i, currentCluster, clusters)

\* the clusters of the sorted line numbers, from position i on
RECURSIVE ClustersFrom(_, _, _, _)
ClustersFrom(sortedLines, i, currentCluster, clusters) ==
    IF i > Len(sortedLines) THEN Append(clusters, currentCluster)
    ELSE IF sortedLines[i] - sortedLines[i - 1] <= ClusterGap
         THEN ClustersFrom(sortedLines, i + 1,
                           Append(currentCluster, sortedLines[i]), clusters)
         ELSE ClustersFrom(sortedLines, i + 1, <<sortedLines[i]>>,
                           Append(clusters, currentCluster))

\* the line half way between the first and the last line of the cluster
CenterLine_Middle(cluster) == (cluster[1] + cluster[Len(cluster)]) \div 2

\* cluster[Math.floor(cluster.length / 2)]
CenterLine(cluster) == cluster[(Len(cluster) \div 2) + 1]

\* the LineSnippet for a cluster
SnippetOf(lines, cluster) ==
    LET centerLine == CenterLine(cluster)
    IN  [ lineNumber |-> centerLine,
          content    |-> IF centerLine \in 1..Len(lines)
                         THEN Trim(lines[centerLine]) ELSE <<>>,
          context    |->
              [ before |-> IF centerLine - 1 \in 1..Len(lines)
                           THEN <<Trim(lines[centerLine - 1])>> ELSE <<>>,
                after  |-> IF centerLine + 1 \in 1..Len(lines)
                           THEN <<Trim(lines[centerLine + 1])>> ELSE <<>> ] ]

\* the Set matchedLines after the loop over [...query.terms,
\* ...query.exactTerms]: the positions lineIndex.get(term.toLowerCase()) has
MatchedLines(lineIndex, query) ==
    LET lookups == query.terms \o query.exactTerms
        positionsOf(term) ==
            IF ToLower(term) \in DOMAIN lineIndex
            THEN {lineIndex[ToLower(term)][j] :
                     j \in 1..Len(lineIndex[ToLower(term)])}
            ELSE {}
    IN  UNION {positionsOf(lookups[k]) : k \in 1..Len(lookups)}

extractLineSnippets(content, lineIndex, query, maxSnippets) ==
    LET matchedLines == MatchedLines(lineIndex, query)
        lines == SplitOn(content, {"\n"})
        sortedLines == SortedAscending(matchedLines)
        clusters == ClustersFrom(sortedLines, 2, <<sortedLines[1]>>, <<>>)
        bySize == [k \in 1..Len(clusters) |->
                      [cluster |-> clusters[k], length |-> Len(clusters[k])]]
        topClusters == Slice(SortDesc(bySize, "length"), maxSnippets)
    IN  IF matchedLines = {} THEN <<>>
        ELSE [k \in 1..Len(topClusters) |-> SnippetOf(lines, topClusters[k].cluster)]

----------------------------------------------------------------------------
(* Signal scorers *)

\* the weight alone, the factor num / den is left out
Times_Whole(weight, num, den) == 2 * weight

\* weight * num / den in halves of a point
Times(weight, num, den) == (2 * weight * num) \div den

RECURSIVE SumSeq(_)
SumSeq(xs) == IF xs = <<>> THEN 0 ELSE Head(xs) + SumSeq(Tail(xs))

\* One iteration of a scorer's loop: what it adds to totalScore and what it
\* pushes on reasons.  The code updates the two separately.
Nothing == [score |-> 0, reasons |-> <<>>]

\* an iteration that adds to totalScore and pushes a reason that lists half
\* of it
Award_HalfListed(amount, type, what, term) ==
    [ score   |-> amount,
      reasons |-> << [type |-> type, what |-> what, term |-> term,
                      contribution |-> amount \div 2] >> ]

Award(amount, type, what, term) ==
    [ score   |-> amount,
      reasons |-> << [type |-> type, what |-> what, term |-> term,
                      contribution |-> amount] >> ]

\* the { score, reasons } a scorer returns after the given iterations
Collect(steps) ==
    [ score   |-> SumSeq([k \in 1..Len(steps) |-> steps[k].score]),
      reasons |-> Flatten([k \in 1..Len(steps) |-> steps[k].reasons]) ]

calculateFilenameScore(filePath, query) ==
    LET filename == ToLower(Basename(filePath))
        filenameNoExt == ToLower(BasenameNoExt(filePath))
        forTerm(term) ==
            IF filename = term
            THEN Award(Times(W_filename, 1, 1), "filename", "exact", term)
            ELSE IF filenameNoExt = term
            THEN Award(Times(W_filename, 9, 10), "filename", "noext", term)
            ELSE IF Includes(filename, term)
            THEN Award(Times(W_filename, 6, 10), "filename", "partial", term)
            ELSE Nothing
        forExact(exact) ==
            IF Includes(filename, ToLower(exact))
            THEN Award(Times(W_filename, 12, 10), "filename", "phrase", exact)
            ELSE Nothing
    IN  Collect([k \in 1..Len(query.terms) |-> forTerm(query.terms[k])]
                \o [k \in 1..Len(query.exactTerms) |-> forExact(query.exactTerms[k])])

calculateFilepathScore(filePath, query) ==
    LET normalizedPath == ToLower(filePath)
        dirPath == Dirname(normalizedPath)
        pathTerms == SplitOn(dirPath, {"/", "\\"})
        substring(term) ==
            IF Includes(dirPath, term)
            THEN Award(Times(W_filepath, 5, 10), "filepath", "directory", term)
            ELSE Nothing
        segment(term) ==
            IF Contains(pathTerms, term)
            THEN Award(Times(W_filepath, 8, 10), "filepath", "exactdir", term)
            ELSE Nothing
    IN  Collect([k \in 1..Len(query.terms) |-> substring(query.terms[k])]
                \o [k \in 1..Len(query.terms) |-> segment(query.terms[k])])

\* `(?:function|def|fn|func)\s+${term}\\s*\\(`: in the template literal \s is
\* the letter s, so the source reads (?:function|def|fn|func)s+TERM\s*\(
funcKeywords == <<S("function"), S("def"), S("fn"), S("func")>>
funcRegex(keyword, term) ==
    Lits(keyword) \o <<Plus(Lit("s"))>> \o ParseRegex(term).atoms
    \o <<Star(Ws), Lit("(")>>

\* `(?:class|interface|struct|enum)\s+${term}\\b`: likewise
\* (?:class|interface|struct|enum)s+TERM\b
classKeywords == <<S("class"), S("interface"), S("struct"), S("enum")>>
classRegex(keyword, term) ==
    Lits(keyword) \o <<Plus(Lit("s"))>> \o ParseRegex(term).atoms \o <<WordB>>

\* `(?:\\/\\/|#|\\*|\\/\\*)[^\\n]*${term}`: (?:\/\/|#|\*|\/\*)[^\n]*TERM
commentMarkers == <<S("//"), S("#"), S("*"), S("/*")>>
commentRegex(marker, term) ==
    Lits(marker) \o <<Star(NotNl)>> \o ParseRegex(term).atoms

\* regex.test(fileContent) for a (?:a|b|...) alternation, given as the list
\* of its alternatives, each followed by the common tail
TestAny(regexes, fileContent) ==
    \E k \in 1..Len(regexes) : RegexTest(regexes[k], fileContent, TRUE)

\* a content reason; attached is <<>> when the reason gets no lineSnippets
\* property, <<snippets>> when it gets one
AwardContent(amount, what, term, attached) ==
    IF attached = <<>> THEN Award(amount, "content", what, term)
    ELSE [ score   |-> amount,
           reasons |-> << [type |-> "content", what |-> what, term |-> term,
                           contribution |-> amount,
                           lineSnippets |-> attached[1]] >> ]

\* what the two loops of calculateContentScore attach to a content reason:
\* metadata?.lineIndex && metadata.content && maxSnippets && maxSnippets > 0
AttachedSnippets(query, metadata, maxSnippets) ==
    IF /\ metadata.lineIndex # <<>>
       /\ metadata.content # <<>> /\ metadata.content[1] # <<>>
       /\ maxSnippets > 0
    THEN << extractLineSnippets(metadata.content[1], metadata.lineIndex[1],
                                query, maxSnippets) >>
    ELSE <<>>

\* the loops of calculateContentScore over the content read;
\* threw: new RegExp(term) raised a SyntaxError
ScoreContent(fileContent, query, attached) ==
    LET normalizedContent == ToLower(fileContent)
        occurrencesOf(term) ==
            CountMatches(ParseRegex(term).atoms, normalizedContent, 1)
        forTerm(term) ==
            LET occurrences == occurrencesOf(term)
            IN  IF occurrences > 0
                THEN AwardContent(Min(Times(W_content, 1, 1),
                                      Times(W_content, occurrences, 5)),
                                  "term", term, attached)
                ELSE Nothing
        forExact(exact) ==
            IF Includes(normalizedContent, ToLower(exact))
            THEN AwardContent(Times(W_content, 15, 10), "phrase", exact, attached)
            ELSE Nothing
        heuristics(term) ==
            Collect(<<
                IF TestAny([k \in 1..Len(funcKeywords) |-> funcRegex(funcKeywords[k], term)], fileContent)
                THEN Award(Times(W_function, 1, 1), "function", "named", term)
                ELSE Nothing,
                IF TestAny([k \in 1..Len(classKeywords) |-> classRegex(classKeywords[k], term)], fileContent)
                THEN Award(Times(W_class, 1, 1), "class", "named", term)
                ELSE Nothing,
                IF TestAny([k \in 1..Len(commentMarkers) |-> commentRegex(commentMarkers[k], term)], fileContent)
                THEN Award(Times(W_comment, 5, 10), "comment", "mention", term)
                ELSE Nothing >>)
        threw == \E k \in 1..Len(query.terms) : ~ParseRegex(query.terms[k]).ok
    IN  IF threw THEN [threw |-> TRUE, score |-> 0, reasons |-> <<>>]
        ELSE [threw |-> FALSE] @@
             Collect([k \in 1..Len(query.terms) |-> forTerm(query.terms[k])]
                 \o [k \in 1..Len(query.exactTerms) |-> forExact(query.exactTerms[k])]
                 \o [k \in 1..Len(query.terms) |-> heuristics(query.terms[k])])

\* calculateContentScore; fileContent is what readFile(...).catch(() => '')
\* gives, read only when the metadata carries no content
calculateContentScore(fileContent, query, metadata, maxSnippets) ==
    ScoreContent(IF metadata.content # <<>> THEN metadata.content[1]
                 ELSE fileContent,
                 query, AttachedSnippets(query, metadata, maxSnippets))

calculateMetadataScore(metadata, query) ==
    LET hasMatchingType ==
            \E k \in 1..Len(query.fileTypes) :
                ToLower(metadata.extension) = ToLower(query.fileTypes[k])
        exportsOf(term) ==
            SelectSeq(metadata.exports, LAMBDA e : Includes(ToLower(e), term))
        exportHit == \E k \in 1..Len(query.terms) : exportsOf(query.terms[k]) # <<>>
        firstHit == CHOOSE k \in 1..Len(query.terms) :
                        /\ exportsOf(query.terms[k]) # <<>>
                        /\ \A j \in 1..(k - 1) : exportsOf(query.terms[j]) = <<>>
    IN  Collect(<<
            IF hasMatchingType
            THEN Award(2 * TypeBonus, "content", "filetype", metadata.extension)
            ELSE Nothing,
            IF metadata.isTest /\ query.wantTests
            THEN Award(Times(W_test, 1, 1), "test", "intent", <<>>)
            ELSE Nothing,
            IF metadata.isConfig /\ query.wantConfigs
            THEN Award(Times(W_config, 1, 1), "config", "intent", <<>>)
            ELSE Nothing,
            IF metadata.isDoc /\ query.wantDocs
            THEN Award(2 * DocBonus, "content", "doc", <<>>)
            ELSE Nothing,
            IF exportHit
            THEN Award(Times(W_export, 1, 1), "export", "exports",
                       query.terms[firstHit])
            ELSE Nothing >>)

----------------------------------------------------------------------------
(* Score aggregator *)

\* Math.round of a number given in halves of a point
RoundHalves(h) == (h + 1) \div 2

\* relative(rootPath, filePath) for a file below rootPath
RelativePath(rootPath, filePath) ==
    IF StartsWith(filePath, rootPath \o S("/"))
    THEN SubSeq(filePath, Len(rootPath) + 2, Len(filePath))
    ELSE filePath

\* the content result of calculateFileScore: the content scorer runs only
\* when content search is on and the file is below the fixed size
ContentResult(fileContent, query, metadata, searchContent, maxSnippets) ==
    IF searchContent /\ metadata.size < ContentSizeLimit
    THEN calculateContentScore(fileContent, query, metadata, maxSnippets)
    ELSE [threw |-> FALSE, score |-> 0, reasons |-> <<>>]

\* the sum without the ceiling
TotalScore_NoCeiling(filenameResult, filepathResult, metadataResult, contentResult) ==
    filenameResult.score + filepathResult.score + metadataResult.score
    + contentResult.score

\* Math.min(100, sum of the four scores), in halves of a point
TotalScore(filenameResult, filepathResult, metadataResult, contentResult) ==
    Min(2 * ScoreCeiling,
        filenameResult.score + filepathResult.score + metadataResult.score
        + contentResult.score)

\* the cut without the sort
TopReasons_Unsorted(allReasons) == Slice(allReasons, 5)

\* allReasons after allReasons.sort(...), cut by slice(0, 5)
TopReasons(allReasons) == Slice(SortDesc(allReasons, "contribution"), 5)

\* the FileMatch calculateFileScore builds from the four results
\* (threw: the content scorer raised, so that no FileMatch is returned)
Aggregate(filePath, rootPath, metadata, filenameResult, filepathResult, metadataResult, contentResult) ==
    [ threw        |-> contentResult.threw,
      path         |-> filePath,
      relativePath |-> RelativePath(rootPath, filePath),
      score        |-> RoundHalves(TotalScore(filenameResult, filepathResult,
                                              metadataResult, contentResult)),
      reasons      |-> TopReasons(filenameResult.reasons \o filepathResult.reasons
                           \o metadataResult.reasons \o contentResult.reasons),
      metadata     |-> metadata ]

\* calculateFileScore; fileContent is what readFile(...).catch(() => '')
\* gives for the file
calculateFileScore(filePath, fileContent, query, metadata, rootPath, searchContent, maxSnippets) ==
    Aggregate(filePath, rootPath, metadata,
              calculateFilenameScore(filePath, query),
              calculateFilepathScore(filePath, query),
              calculateMetadataScore(metadata, query),
              ContentResult(fileContent, query, metadata, searchContent, maxSnippets))

----------------------------------------------------------------------------
(* Inputs: the queries, option values and candidate files the model draws *)

Str(s) == [t |-> "string", s |-> S(s)]

\* the query values a caller passes: the empty string, white space, a value
\* that is no string, and four queries, the last with a term that is no
\* valid regular expression source
QueryPool == {
    Str(""),
    Str(" \t "),
    [t |-> "number", s |-> S("42")],
    Str("auth"),
    Str("auth config"),
    Str("\"user service\" Auth .ts"),
    Str("auth c++") }

\* An optional option is <<>> when the caller omits it, <<v>> when it is v.
MaxFilesPool == {<<>>, <<0>>, <<1>>}
MinScorePool == {<<>>, <<0>>, <<10>>, <<40>>}
SearchContentPool == {<<>>, <<FALSE>>}
MaxFileSizePool == {<<>>, <<3000000>>}
RootPool == {S("/w")}

OptionsSpace ==
    [ query         : QueryPool,
      maxFiles      : MaxFilesPool,
      minScore      : MinScorePool,
      rootPath      : RootPool,
      searchContent : SearchContentPool,
      maxFileSize   : MaxFileSizePool ]

\* A candidate is a file of the tree as the traversal collaborator lists
\* it: its absolute path, its stat size, its text, and what goes wrong on
\* access: "stat" (fs.stat rejects), "read" (fs.readFile rejects), "none".
\* The text of the oversize candidate stands for a file padded to that size.
File(path, size, content, fault) ==
    [path |-> S(path), size |-> size, content |-> S(content), fault |-> fault]

FilePool == {
    File("/w/src/auth/auth.ts", 60,
         "export function auth() {}\n// auth check auth\nclass Auth {}", "none"),
    File("/w/auth-lib/user service.ts", 30, "the User Service\n# config", "none"),
    File("/w/config/auth.config.js", 2000000,
         "module.exports = { authConfig }", "none"),
    File("/w/src/auth/gone.ts", 10, "auth", "stat"),
    File("/w/lib/auth", 40, "functions auth (x) auth auth auth auth", "read") }

\* the longest candidate list the traversal returns in the model
MaxCandidates == 3

\* the candidate lists: the sequences of distinct files of FilePool
RECURSIVE ListsOf(_)
ListsOf(n) ==
    IF n = 0 THEN {<<>>}
    ELSE LET shorter == ListsOf(n - 1)
         IN  shorter \cup
             {Append(l, f) : l \in {x \in shorter : Len(x) = n - 1},
                             f \in FilePool}

CandidateLists ==
    {l \in ListsOf(MaxCandidates) :
        \A i, j \in 1..Len(l) : i # j => l[i] # l[j]}

\* A second tree, searched with line previews: a configuration module, an
\* unrelated module, a file of several lines, a file whose stat fails and an
\* oversize file.
TreeFilePool == {
    File("/w/src/db/config.ts", 40, "export function loadDatabaseConfig() {}", "none"),
    File("/w/src/utils/math.ts", 20, "export const add = 1", "none"),
    File("/w/lib/pool.ts", 80,
         "// database pool\nconst x = 1\n\n\nconfig = load()\nx()\n  Database.connect(config)  ",
         "none"),
    File("/w/lib/gone.ts", 10, "database", "stat"),
    File("/w/data/database.sql", 2000000, "config database", "none") }

TreeQueryPool == {
    Str("database config"),
    Str("\"database pool\" Config"),
    Str("database c++") }

\* the options of the searches over the second tree; the include flags only
\* shape the ignore list handed to the traversal collaborator
TreeOptionsSpace ==
    [ query               : TreeQueryPool,
      maxFiles            : {<<>>},
      minScore            : {<<>>},
      rootPath            : RootPool,
      searchContent       : SearchContentPool,
      maxFileSize         : {<<>>},
      includeConfigs      : {<<TRUE>>},
      includeLinePreviews : {<<>>, <<TRUE>>},
      maxSnippetsPerFile  : {<<>>, <<0>>, <<1>>} ]

RECURSIVE TreeListsOf(_)
TreeListsOf(n) ==
    IF n = 0 THEN {<<>>}
    ELSE LET shorter == TreeListsOf(n - 1)
         IN  shorter \cup
             {Append(l, f) : l \in {x \in shorter : Len(x) = n - 1},
                             f \in TreeFilePool}

TreeLists ==
    {l \in TreeListsOf(MaxCandidates) :
        \A i, j \in 1..Len(l) : i # j => l[i] # l[j]}

----------------------------------------------------------------------------
(* extractMetadata *)

\* what fs.readFile(filePath, 'utf-8').catch(() => '') resolves to
ReadOrEmpty(file) == IF file.fault = "read" THEN <<>> ELSE file.content

\* the FileMetadata of a candidate whose stat succeeds (lastModified and
\* imports, which no scorer reads, are left out); lineIndex and content are
\* <<>> when undefined
extractMetadata(file, includeLineIndex) ==
    LET content == ReadOrEmpty(file)
        lines == SplitOn(content, {"\n"})
    IN  [ size      |-> file.size,
          extension |-> Extname(file.path),
          lineCount |-> Len(lines),
          isTest    |-> isTestFile(file.path),
          isConfig  |-> isConfigFile(file.path),
          isDoc     |-> isDocFile(file.path),
          language  |-> detectLanguage(file.path),
          exports   |-> extractExports(content),
          lineIndex |-> IF includeLineIndex THEN <<buildLineIndex(lines)>>
                        ELSE <<>>,
          content   |-> IF includeLineIndex THEN <<content>> ELSE <<>> ]

----------------------------------------------------------------------------
(* searchFiles *)

\* options.x || dflt for a number: 0 is falsy and gives the default as well
OrDefault(opt, dflt) == IF opt = <<>> \/ opt[1] = 0 THEN dflt ELSE opt[1]

\* options.x ?? dflt
Coalesce(opt, dflt) == IF opt = <<>> THEN dflt ELSE opt[1]

EffMaxFiles(opts) == OrDefault(opts.maxFiles, DefaultMaxFiles)
\* options.minScore ?? 15: a minScore of 0 is honoured
EffMinScore_Nullish(opts) == Coalesce(opts.minScore, DefaultMinScore)

EffMinScore(opts) == OrDefault(opts.minScore, DefaultMinScore)
EffSearchContent(opts) == Coalesce(opts.searchContent, TRUE)
EffMaxFileSize(opts) == OrDefault(opts.maxFileSize, DefaultMaxFileSize)

\* options.x for an option the caller may leave out of the object
Opt(opts, name) == IF name \in DOMAIN opts THEN opts[name] ELSE <<>>

EffIncludeLinePreviews(opts) == Coalesce(Opt(opts, "includeLinePreviews"), FALSE)
EffMaxSnippetsPerFile(opts) ==
    OrDefault(Opt(opts, "maxSnippetsPerFile"), DefaultMaxSnippetsPerFile)

\* includeLinePreviews ? maxSnippetsPerFile : 0
PassedMaxSnippets(opts) ==
    IF EffIncludeLinePreviews(opts) THEN EffMaxSnippetsPerFile(opts) ELSE 0

\* const parsedQuery = parseQuery(options.query), tabulated over QueryPool
ParsedQueries == [q \in QueryPool |-> parseQuery(q)]

\* await extractMetadata(filePath, ...), tabulated over FilePool
Metadata == [f \in FilePool |-> extractMetadata(f, FALSE)]

\* await calculateFileScore(filePath, parsedQuery, metadata, rootPath,
\* searchContent, ...), tabulated over the inputs of the model
FileMatches ==
    [f \in FilePool |-> [q \in QueryPool |-> [root \in RootPool |->
        [searchContent \in BOOLEAN |->
            calculateFileScore(f.path, ReadOrEmpty(f), ParsedQueries[q],
                               Metadata[f], root, searchContent, 0)]]]]

\* the same three tables for the searches over the second tree
TreeParsedQueries == [q \in TreeQueryPool |-> parseQuery(q)]

TreeMetadata ==
    [f \in TreeFilePool |-> [includeLinePreviews \in BOOLEAN |->
        extractMetadata(f, includeLinePreviews)]]

\* what of the options the loop body hands to extractMetadata and
\* calculateFileScore
ScoringKey(opts) ==
    [ query               |-> opts.query,
      rootPath            |-> opts.rootPath,
      searchContent       |-> EffSearchContent(opts),
      includeLinePreviews |-> EffIncludeLinePreviews(opts),
      maxSnippets         |-> PassedMaxSnippets(opts) ]

TreeMatches ==
    [f \in TreeFilePool |-> [key \in {ScoringKey(o) : o \in TreeOptionsSpace} |->
        calculateFileScore(f.path, ReadOrEmpty(f), TreeParsedQueries[key.query],
                           TreeMetadata[f][key.includeLinePreviews],
                           key.rootPath, key.searchContent, key.maxSnippets)]]

\* the FileMatch the loop body computes for a candidate whose stat succeeds
MatchOf(file, opts) ==
    IF file \in FilePool
    THEN FileMatches[file][opts.query][opts.rootPath][EffSearchContent(opts)]
    ELSE TreeMatches[file][ScoringKey(opts)]

\* the threshold is the default, whatever the caller configured
PassesThreshold_Default(match, opts) == match.score >= DefaultMinScore

\* match.score >= minScore
PassesThreshold(match, opts) == match.score >= EffMinScore(opts)

\* await fs.stat(filePath) rejects
StatFailed(file) == file.fault = "stat"

\* stats.size > maxFileSize
TooLarge(file, opts) == file.size > EffMaxFileSize(opts)

\* an exception escapes calculateFileScore
Throws(file, opts) == MatchOf(file, opts).threw

\* The body of the for-loop for one candidate: "skip" when the body leaves
\* by continue (size above maxFileSize) or through catch (stat rejects, or
\* scoring throws), "keep" when it pushes the match, "drop" when the match
\* is below the threshold.
Outcome(file, opts) ==
    IF StatFailed(file) THEN "skip"
    ELSE IF TooLarge(file, opts) THEN "skip"
    ELSE IF Throws(file, opts) THEN "skip"
    ELSE IF PassesThreshold(MatchOf(file, opts), opts) THEN "keep"
    ELSE "drop"

\* try/catch around the whole loop: a failure ends the loop
AfterCatch_Abort(i, n) == n + 1

\* catch { continue }: after a failure at candidate i of n the loop goes on
\* with candidate i + 1
AfterCatch(i, n) == i + 1

\* the matches array after the loop has run over candidates[1..n]
RECURSIVE MatchesAfter(_, _, _)
MatchesAfter(candidates, n, opts) ==
    IF n = 0 THEN <<>>
    ELSE IF Outcome(candidates[n], opts) = "keep"
         THEN Append(MatchesAfter(candidates, n - 1, opts),
                     MatchOf(candidates[n], opts))
         ELSE MatchesAfter(candidates, n - 1, opts)

\* filesScanned counts the matches that passed the threshold
Returned_ScannedKept(candidates, kept, opts) ==
    [ files        |-> Slice(SortDesc(kept, "score"), EffMaxFiles(opts)),
      filesScanned |-> Len(kept),
      query        |-> opts.query ]

\* filesScanned counts the candidates the loop did not skip
Returned_ScannedUnskipped(candidates, kept, opts) ==
    [ files        |-> Slice(SortDesc(kept, "score"), EffMaxFiles(opts)),
      filesScanned |-> Len(SelectSeq(candidates,
                              LAMBDA f : Outcome(f, opts) # "skip")),
      query        |-> opts.query ]

\* the statements after the loop: sort, slice and the returned SearchResult
\* (timeMs, a clock reading, is left out)
Returned(candidates, kept, opts) ==
    [ files        |-> Slice(SortDesc(kept, "score"), EffMaxFiles(opts)),
      filesScanned |-> Len(candidates),
      query        |-> opts.query ]

\* the SearchResult of a whole call, as a function of its inputs
searchFiles(candidates, opts) ==
    Returned(candidates, MatchesAfter(candidates, Len(candidates), opts), opts)

NoResult == [files |-> <<>>, filesScanned |-> 0, query |-> Str("")]

Init ==
    /\ options \in OptionsSpace
    /\ files = <<>>
    /\ idx = 0
    /\ matches = <<>>
    /\ skipped = {}
    /\ result = NoResult
    /\ pc = "glob"

\* await glob(...): the traversal collaborator returns the candidate list
Glob ==
    /\ pc = "glob"
    /\ files' \in CandidateLists
    /\ idx' = 1
    /\ pc' = "loop"
    /\ UNCHANGED <<options, matches, skipped, result>>

\* await glob(...) rejects: searchFiles rejects, nothing is returned
GlobRejects ==
    /\ pc = "glob"
    /\ pc' = "rejected"
    /\ UNCHANGED <<options, files, idx, matches, skipped, result>>

InLoop == pc = "loop" /\ idx <= Len(files)

\* fs.stat rejects: catch { continue }
StatRejects ==
    /\ InLoop
    /\ StatFailed(files[idx])
    /\ skipped' = skipped \cup {idx}
    /\ idx' = AfterCatch(idx, Len(files))
    /\ UNCHANGED <<options, files, matches, result, pc>>

\* if (stats.size > maxFileSize) continue
Oversize ==
    /\ InLoop
    /\ ~StatFailed(files[idx])
    /\ TooLarge(files[idx], options)
    /\ skipped' = skipped \cup {idx}
    /\ idx' = idx + 1
    /\ UNCHANGED <<options, files, matches, result, pc>>

Scorable ==
    /\ InLoop
    /\ ~StatFailed(files[idx])
    /\ ~TooLarge(files[idx], options)

\* calculateFileScore throws: catch { continue }
ScoringThrows ==
    /\ Scorable
    /\ Throws(files[idx], options)
    /\ skipped' = skipped \cup {idx}
    /\ idx' = AfterCatch(idx, Len(files))
    /\ UNCHANGED <<options, files, matches, result, pc>>

\* if (match.score >= minScore) matches.push(match)
Keep ==
    /\ Scorable
    /\ ~Throws(files[idx], options)
    /\ PassesThreshold(MatchOf(files[idx], options), options)
    /\ matches' = Append(matches, MatchOf(files[idx], options))
    /\ idx' = idx + 1
    /\ UNCHANGED <<options, files, skipped, result, pc>>

\* the match is below the threshold: nothing is pushed
Drop ==
    /\ Scorable
    /\ ~Throws(files[idx], options)
    /\ ~PassesThreshold(MatchOf(files[idx], options), options)
    /\ idx' = idx + 1
    /\ UNCHANGED <<options, files, matches, skipped, result, pc>>

\* the loop is over: matches.sort(...), then return { files, filesScanned, ... }
Return ==
    /\ pc = "loop"
    /\ idx > Len(files)
    /\ result' = Returned(files, matches, options)
    /\ pc' = "done"
    /\ UNCHANGED <<options, files, idx, matches, skipped>>

Next ==
    \/ Glob
    \/ GlobRejects
    \/ StatRejects
    \/ Oversize
    \/ ScoringThrows
    \/ Keep
    \/ Drop
    \/ Return

Spec == Init /\ [][Next]_vars

\* searchFiles over the second tree
InitPreview ==
    /\ options \in TreeOptionsSpace
    /\ files = <<>>
    /\ idx = 0
    /\ matches = <<>>
    /\ skipped = {}
    /\ result = NoResult
    /\ pc = "glob"

\* await glob(...) over the second tree
GlobTree ==
    /\ pc = "glob"
    /\ files' \in TreeLists
    /\ idx' = 1
    /\ pc' = "loop"
    /\ UNCHANGED <<options, matches, skipped, result>>

NextPreview ==
    \/ GlobTree
    \/ GlobRejects
    \/ StatRejects
    \/ Oversize
    \/ ScoringThrows
    \/ Keep
    \/ Drop
    \/ Return

SpecPreview == InitPreview /\ [][NextPreview]_vars

----------------------------------------------------------------------------
(* Properties *)

\* the candidates the loop has gone through without skipping them: those
\* for which calculateFileScore returned a FileMatch in this call
Scored == {i \in 1..(idx - 1) : i \notin skipped}

\* the FileMatch records calculateFileScore has returned so far
Computed == {MatchOf(files[i], options) : i \in Scored}

\* the unclamped sum of the four scorers' scores, in halves of a point
RawTotals ==
    [f \in FilePool |-> [q \in QueryPool |-> [searchContent \in BOOLEAN |->
        calculateFilenameScore(f.path, ParsedQueries[q]).score
        + calculateFilepathScore(f.path, ParsedQueries[q]).score
        + calculateMetadataScore(Metadata[f], ParsedQueries[q]).score
        + ContentResult(ReadOrEmpty(f), ParsedQueries[q], Metadata[f],
                        searchContent, 0).score]]]

\* all reasons the four scorers produce for a file, in the order of allReasons
AllReasons ==
    [f \in FilePool |-> [q \in QueryPool |-> [searchContent \in BOOLEAN |->
        calculateFilenameScore(f.path, ParsedQueries[q]).reasons
        \o calculateFilepathScore(f.path, ParsedQueries[q]).reasons
        \o calculateMetadataScore(Metadata[f], ParsedQueries[q]).reasons
        \o ContentResult(ReadOrEmpty(f), ParsedQueries[q], Metadata[f],
                         searchContent, 0).reasons]]]

RawTotalOf(file, opts) ==
    RawTotals[file][opts.query][EffSearchContent(opts)]

AllReasonsOf(file, opts) ==
    AllReasons[file][opts.query][EffSearchContent(opts)]

\* the number of entries of a sequence that satisfy Test
CountIn(xs, Test(_)) == Cardinality({k \in 1..Len(xs) : Test(xs[k])})

\* the paths of a list of matches
PathsOf(ms) == {ms[k].path : k \in 1..Len(ms)}

\* C1: the score of every FileMatch that calculateFileScore returns is an
\* integer between 0 and 100, however large the raw sum of the scorers is.
C1_ScoreInRange == \A m \in Computed : m.score \in 0..100

\* a FileMatch whose scorers add up to more than 100 points
C1_Witness ==
    \E i \in Scored :
        /\ RawTotalOf(files[i], options) > 2 * 100
        /\ MatchOf(files[i], options).score = 100

\* C2: searchFiles returns at most maxFiles files, for every non-negative
\* maxFiles the caller supplies (10 when it is omitted).
C2_AtMostMaxFiles ==
    pc = "done" =>
        Len(result.files) <= (IF options.maxFiles = <<>> THEN 10
                              ELSE options.maxFiles[1])

\* the minimum score the caller configured, 15 when it is omitted
ConfiguredMinScore(opts) ==
    IF opts.minScore = <<>> THEN 15 ELSE opts.minScore[1]

\* C3: every match kept by the loop and every match of result.files has a
\* score of at least the configured minScore (15 when omitted).
C3_NoMatchBelowMinScore ==
    /\ \A k \in 1..Len(matches) :
           matches[k].score >= ConfiguredMinScore(options)
    /\ \A k \in 1..Len(result.files) :
           result.files[k].score >= ConfiguredMinScore(options)

\* a search with a configured minimum that returned a file and left out a
\* scored file below the minimum
C3_Witness ==
    /\ pc = "done"
    /\ options.minScore = <<40>>
    /\ result.files # <<>>
    /\ \E m \in Computed : m.score < 40 /\ m.score > 0

\* C4: with everything else fixed, the files returned with minScore = b are
\* among the files returned with minScore = a, for all a <= b in 0..100.
C4_RaisingMinScoreOnlyRemoves ==
    (pc = "done" /\ options.minScore # <<>>) =>
        \A a \in 0..options.minScore[1] :
            PathsOf(result.files) \subseteq
            PathsOf(searchFiles(files, [options EXCEPT !.minScore = <<a>>]).files)

\* C5: result.files is in non-increasing score order, and no match that
\* passed the threshold but was cut has a score above a returned match.
C5_RankedAndBestKept ==
    pc = "done" =>
        /\ \A i, j \in 1..Len(result.files) :
               i < j => result.files[i].score >= result.files[j].score
        /\ \A k \in 1..Len(matches) :
               matches[k].path \notin PathsOf(result.files) =>
                   \A r \in 1..Len(result.files) :
                       matches[k].score <= result.files[r].score

\* a search whose matches were pushed out of order and then cut
C5_Witness ==
    /\ pc = "done"
    /\ result.files # <<>>
    /\ Len(result.files) < Len(matches)
    /\ \E i, j \in 1..Len(matches) : i < j /\ matches[i].score < matches[j].score

\* a candidate whose processing fails: stat rejects, or scoring throws
Failed(file, opts) ==
    \/ StatFailed(file)
    \/ ~TooLarge(file, opts) /\ Throws(file, opts)

\* C6: a failure on one candidate never aborts the search: the loop goes
\* on to its end, the call is not rejected once the traversal has returned,
\* and result.files is what the search returns without the failing files.
C6_FailuresOnlySkip ==
    /\ pc = "loop" => ENABLED Next
    /\ pc = "rejected" => idx = 0
    /\ pc = "done" =>
           result.files =
               searchFiles(SelectSeq(files, LAMBDA f : ~Failed(f, options)),
                           options).files

\* a search in which one candidate failed at stat, another in scoring, and a
\* later candidate was still returned
C6_Witness ==
    /\ pc = "done"
    /\ \E i, j, k \in 1..Len(files) :
           /\ i < k /\ j < k
           /\ StatFailed(files[i])
           /\ ~StatFailed(files[j]) /\ ~TooLarge(files[j], options)
           /\ Throws(files[j], options)
           /\ files[k].path \in PathsOf(result.files)

\* C7: reasons has at most 5 entries, in non-increasing order of
\* contribution, and they are the 5 highest-contribution reasons among all
\* the reasons the four scorers produced for the file.
C7_TopFiveReasons ==
    \A i \in Scored :
        LET m == MatchOf(files[i], options)
            all == AllReasonsOf(files[i], options)
        IN  /\ Len(m.reasons) <= 5
            /\ Len(m.reasons) = Min(5, Len(all))
            /\ \A a, b \in 1..Len(m.reasons) :
                   a < b => m.reasons[a].contribution >= m.reasons[b].contribution
            /\ \A k \in 1..Len(m.reasons) :
                   CountIn(m.reasons, LAMBDA r : r = m.reasons[k])
                   <= CountIn(all, LAMBDA r : r = m.reasons[k])
            /\ \A k \in 1..Len(all) :
                   CountIn(m.reasons,
                           LAMBDA r : r.contribution >= all[k].contribution)
                   = Min(5, CountIn(all,
                           LAMBDA r : r.contribution >= all[k].contribution))

\* a file with more than 5 reasons that the scorers produced out of order
C7_Witness ==
    \E i \in Scored :
        LET all == AllReasonsOf(files[i], options)
        IN  /\ Len(all) > 5
            /\ \E a, b \in 1..Len(all) :
                   a < b /\ b <= 5 /\ all[a].contribution < all[b].contribution
            /\ \E a, b \in 1..Len(all) :
                   a <= 5 /\ b > 5 /\ all[a].contribution < all[b].contribution

\* an empty, whitespace-only or non-string query
IsBlankQuery(query) ==
    \/ query.t # "string"
    \/ \A k \in 1..Len(query.s) : query.s[k] \in WhiteSpace

\* C8: for an empty, whitespace-only or non-string query no scoring throws
\* and no file is matched, whatever the tree and the minScore >= 0.
C8_BlankQueryNoMatches ==
    IsBlankQuery(options.query) =>
        /\ matches = <<>>
        /\ result.files = <<>>
        /\ \A i \in skipped :
               StatFailed(files[i]) \/ TooLarge(files[i], options)
        /\ pc = "rejected" => idx = 0

\* a finished search for a whitespace-only query with minScore 0 that scored
\* a file
C8_Witness ==
    /\ pc = "done"
    /\ options.query = Str(" \t ")
    /\ options.minScore = <<0>>
    /\ Scored # {}

\* C9: filesScanned is the number of candidates the traversal returned; it
\* is the same for every minScore and maxFiles.
C9_FilesScannedCountsCandidates ==
    pc = "done" =>
        /\ result.filesScanned = Len(files)
        /\ \A ms \in MinScorePool, mf \in MaxFilesPool :
               searchFiles(files, [options EXCEPT !.minScore = ms,
                                                  !.maxFiles = mf]).filesScanned
               = result.filesScanned

\* a search of three candidates, one below the threshold and one cut
C9_Witness ==
    /\ pc = "done"
    /\ Len(files) = 3
    /\ skipped = {}
    /\ Len(matches) = 2
    /\ Len(result.files) = 1

\* C10 as stated: each skipped candidate lowers filesScanned by one.
C10_SkipLowersFilesScanned ==
    pc = "done" => result.filesScanned = Len(files) - Cardinality(skipped)

\* C10, amended: a candidate the loop skips is missing from result.files
\* and is still counted in filesScanned, which stays the number of
\* candidates however many are skipped.
C10_SkipIsNotVisible ==
    pc = "done" =>
        /\ result.filesScanned = Len(files)
        /\ result.filesScanned >= Len(files) - Cardinality(skipped)
        /\ \A i \in skipped : files[i].path \notin PathsOf(result.files)

\* a search that skipped a candidate of each kind
C10_Witness ==
    /\ pc = "done"
    /\ result.files # <<>>
    /\ \E i \in skipped : StatFailed(files[i])
    /\ \E i \in skipped : ~StatFailed(files[i]) /\ TooLarge(files[i], options)


----------------------------------------------------------------------------
(* parseQuery called on its own *)

(***************************************************************************)
(* A caller may call parseQuery directly (the tests do).  In this          *)
(* specification options holds the argument of the call, result the        *)
(* ParsedQuery of the first call and matches that of a second call with    *)
(* the same argument.                                                      *)
(***************************************************************************)

\* the characters the queries are drawn from: a lower-case and an upper-case
\* letter, the dot, the double quote and the blank
ParseAlphabet == {"a", "B", ".", "\"", " "}

\* the longest query drawn from ParseAlphabet
MaxQueryLen == 5

\* the strings over ParseAlphabet of length n
RECURSIVE StringsOfLen(_)
StringsOfLen(n) ==
    IF n = 0 THEN {<<>>}
    ELSE {Append(s, c) : s \in StringsOfLen(n - 1), c \in ParseAlphabet}

\* queries with words the bounded strings cannot spell, and values that are
\* no strings
ParseExamples == {
    Str("docker"), Str("c"), Str("ext auth .ts typescript"),
    Str("auth auth middleware"), Str("\"user service\" auth"),
    Str("test the Config docs"),
    [t |-> "undefined", s |-> <<>>], [t |-> "null", s |-> <<>>],
    [t |-> "number", s |-> S("0")], [t |-> "number", s |-> S("42")] }

ParseInputs ==
    ParseExamples \cup
    {[t |-> "string", s |-> s] :
        s \in UNION {StringsOfLen(n) : n \in 0..MaxQueryLen}}

InitParse ==
    /\ options \in {[query |-> q] : q \in ParseInputs}
    /\ files = <<>>
    /\ idx = 0
    /\ matches = <<>>
    /\ skipped = {}
    /\ result = NoResult
    /\ pc = "parse"

\* parseQuery(query)
ParseCall ==
    /\ pc = "parse"
    /\ result' = parseQuery(options.query)
    /\ pc' = "parsed"
    /\ UNCHANGED <<options, files, idx, matches, skipped>>

\* parseQuery(query) once more, with the same argument
ParseAgain ==
    /\ pc = "parsed"
    /\ matches' = <<parseQuery(options.query)>>
    /\ pc' = "reparsed"
    /\ UNCHANGED <<options, files, idx, skipped, result>>

NextParse ==
    \/ ParseCall
    \/ ParseAgain

SpecParse == InitParse /\ [][NextParse]_vars



\* the fields of a ParsedQuery
ParsedQueryFields ==
    {"original", "terms", "exactTerms", "fileTypes",
     "wantTests", "wantConfigs", "wantDocs"}

NoDuplicates(xs) == \A i, j \in 1..Len(xs) : i # j => xs[i] # xs[j]

\* a ParsedQuery with every field present and none undefined or null
WellFormedParsedQuery(pq) ==
    /\ DOMAIN pq = ParsedQueryFields
    /\ pq.original.t \notin {"undefined", "null"}
    /\ \A f \in {"terms", "exactTerms", "fileTypes"} :
           DOMAIN pq[f] = 1..Len(pq[f])
    /\ \A f \in {"wantTests", "wantConfigs", "wantDocs"} : pq[f] \in BOOLEAN

QuotePositions(s) ==
    LET at == {i \in 1..Len(s) : s[i] = "\""}
        nth[k \in 0..Cardinality(at)] ==
            IF k = 0 THEN 0
            ELSE CHOOSE i \in at : i > nth[k - 1] /\
                                   \A j \in at : j > nth[k - 1] => i <= j
    IN  [k \in 1..Cardinality(at) |-> nth[k]]

\* The quoted spans of s, read off the quotes alone: two consecutive quotes
\* with at least one character between them form a span unless the first
\* of them already closes a span.
SpansOf(s) ==
    LET qp == QuotePositions(s)
        closes[k \in 0..Len(qp)] ==
            \* the quote k closes a span opened by the quote k - 1
            IF k <= 1 THEN FALSE
            ELSE qp[k] > qp[k - 1] + 1 /\ ~closes[k - 1]
    IN  {<<qp[k - 1], qp[k]>> : k \in {j \in 2..Len(qp) : closes[j]}}

\* the position i of s lies in one of the spans, quotes included
InSpan(spans, i) == \E sp \in spans : sp[1] <= i /\ i <= sp[2]

\* the position i of s separates words of the remainder outside the spans
Separates(s, spans, i) ==
    i < 1 \/ i > Len(s) \/ s[i] \in WhiteSpace \/ InSpan(spans, i)

\* the words of the remainder of s outside the spans, as <<first, last>>
WordRuns(s, spans) ==
    {r \in (1..Len(s)) \X (1..Len(s)) :
        /\ r[1] <= r[2]
        /\ \A i \in r[1]..r[2] : ~Separates(s, spans, i)
        /\ Separates(s, spans, r[1] - 1)
        /\ Separates(s, spans, r[2] + 1)}

\* the words of the unquoted remainder of s that are ordinary terms
OrdinaryRuns(s) ==
    {r \in WordRuns(s, SpansOf(s)) :
        /\ s[r[1]] # "."
        /\ ToLower(SubSeq(s, r[1], r[2])) \notin
               {S("file"), S("files"), S("type"), S("extension"), S("ext")}}

\* the position in s of the first of the runs that spells the word w
FirstAt(s, runs, w) ==
    CHOOSE a \in 1..Len(s) :
        /\ \E r \in runs : r[1] = a /\ ToLower(SubSeq(s, r[1], r[2])) = w
        /\ \A r \in runs : ToLower(SubSeq(s, r[1], r[2])) = w => a <= r[1]

\* the terms are distinct and in the order of the first runs that spell them
InFirstOccurrenceOrder(terms, s, runs) ==
    /\ NoDuplicates(terms)
    /\ \A i, j \in 1..Len(terms) :
           i < j => FirstAt(s, runs, terms[i]) < FirstAt(s, runs, terms[j])

\* C16: every non-empty quoted span is in exactTerms, lowercased, and terms
\* holds exactly the lowercased words of the unquoted remainder that do not
\* start with '.' and are no type indicator: quoted words are no terms.
C16_QuotedSpansAndTerms ==
    pc = "parsed" /\ options.query.t = "string" =>
        LET s == options.query.s
        IN  /\ Range(result.exactTerms) =
                   {ToLower(SubSeq(s, sp[1] + 1, sp[2] - 1)) : sp \in SpansOf(s)}
            /\ Range(result.terms) =
                   {ToLower(SubSeq(s, r[1], r[2])) : r \in OrdinaryRuns(s)}

\* a query with a quoted upper-case letter next to an ordinary word
C16_Witness ==
    /\ pc = "parsed"
    /\ options.query.t = "string"
    /\ SpansOf(options.query.s) # {}
    /\ result.exactTerms = <<S("b")>>
    /\ result.terms = <<S("a")>>

\* C17: terms has no duplicate and lists the distinct ordinary words in the
\* order of their first occurrence in the query.
C17_TermsInFirstOccurrenceOrder ==
    pc = "parsed" /\ options.query.t = "string" =>
        InFirstOccurrenceOrder(result.terms, options.query.s,
                               OrdinaryRuns(options.query.s))

\* a word is repeated after another word
C17_Witness ==
    /\ pc = "parsed"
    /\ options.query.t = "string"
    /\ Cardinality(OrdinaryRuns(options.query.s)) > Len(result.terms)
    /\ Len(result.terms) = 2

\* C18: terms and exactTerms of a ParsedQuery are disjoint.
C18_TermsAndExactTermsDisjoint ==
    pc = "parsed" => Range(result.terms) \cap Range(result.exactTerms) = {}

\* C19: fileTypes has no duplicate and every entry begins with '.'.
C19_FileTypesAreExtensions ==
    pc = "parsed" =>
        /\ NoDuplicates(result.fileTypes)
        /\ \A k \in 1..Len(result.fileTypes) :
               StartsWith(result.fileTypes[k], S("."))



----------------------------------------------------------------------------
(* isTestFile, isConfigFile and isDocFile called on their own *)

(***************************************************************************)
(* In this specification options holds the path passed to the three        *)
(* classifiers and result what each of them returns for it.                *)
(***************************************************************************)

\* the directories and the file names the paths are made of
PathDirs == {"", "src/", "config/", "docs/", "tests/", "lib/spec/"}
PathNames == {
    "user.ts", "math.ts", "app.json", "Cargo.toml", "webpack.config.js",
    ".eslintrc", "README.md", "README", "LICENSE", "api.md",
    "test_a.py", "a.test.ts" }

PathInputs == {S(d) \o S(n) : d \in PathDirs, n \in PathNames}

InitClassify ==
    /\ options \in {[filePath |-> path] : path \in PathInputs}
    /\ files = <<>>
    /\ idx = 0
    /\ matches = <<>>
    /\ skipped = {}
    /\ result = NoResult
    /\ pc = "classify"

\* isTestFile(filePath), isConfigFile(filePath), isDocFile(filePath)
Classify ==
    /\ pc = "classify"
    /\ result' = [ isTest   |-> isTestFile(options.filePath),
                   isConfig |-> isConfigFile(options.filePath),
                   isDoc    |-> isDocFile(options.filePath) ]
    /\ pc' = "classified"
    /\ UNCHANGED <<options, files, idx, matches, skipped>>

NextClassify == Classify

SpecClassify == InitClassify /\ [][NextClassify]_vars

\* the pattern p from position i on, read as a glob, matches the whole of s
\* from position j on: '*' stands for any run of characters, every other
\* character for itself
RECURSIVE GlobMatchFrom(_, _, _, _)
GlobMatchFrom(p, i, s, j) ==
    IF i > Len(p) THEN j > Len(s)
    ELSE IF p[i] = "*"
         THEN \/ GlobMatchFrom(p, i + 1, s, j)
              \/ j <= Len(s) /\ GlobMatchFrom(p, i, s, j + 1)
         ELSE /\ j <= Len(s)
              /\ s[j] = p[i]
              /\ GlobMatchFrom(p, i + 1, s, j + 1)

\* the bare file name or the full path matches one of the patterns read as
\* globs, letter case ignored
MatchesAnyGlob(patterns, filePath) ==
    \E k \in 1..Len(patterns) :
        \/ GlobMatchFrom(ToLower(patterns[k]), 1, ToLower(Basename(filePath)), 1)
        \/ GlobMatchFrom(ToLower(patterns[k]), 1, ToLower(filePath), 1)

\* C20: each classifier returns true for a path exactly when the bare file
\* name or the full path matches one of the patterns of its category read
\* as a glob, case-insensitively ('*' any run, every other character itself).
C20_ClassifiersMatchGlobs ==
    pc = "classified" =>
        /\ result.isTest = MatchesAnyGlob(TEST_PATTERNS, options.filePath)
        /\ result.isConfig = MatchesAnyGlob(CONFIG_PATTERNS, options.filePath)
        /\ result.isDoc = MatchesAnyGlob(DOC_PATTERNS, options.filePath)



----------------------------------------------------------------------------
(* calculateFilenameScore on two files *)

(***************************************************************************)
(* In this specification options holds a query and the paths of two files, *)
(* and result what calculateFilenameScore returns for each of them under   *)
(* the parsed query.                                                       *)
(***************************************************************************)

NameQueries == {
    Str("auth"), Str("Auth"), Str("auth lib"), Str("auth auth-lib"),
    Str("auth \"auth-\""), Str("lib .ts"), Str("user") }

NamePaths == {
    S("/w/auth"), S("/w/src/Auth.ts"), S("/w/auth-lib.ts"),
    S("/w/lib/oauth.ts"), S("/w/lib.ts"), S("/w/user.ts") }

InitFilename ==
    /\ options \in [query : NameQueries, a : NamePaths, b : NamePaths]
    /\ files = <<>>
    /\ idx = 0
    /\ matches = <<>>
    /\ skipped = {}
    /\ result = NoResult
    /\ pc = "names"

\* calculateFilenameScore(a, parsedQuery), calculateFilenameScore(b, parsedQuery)
ScoreNames ==
    /\ pc = "names"
    /\ LET parsedQuery == parseQuery(options.query)
       IN  result' = [ query |-> parsedQuery,
                       a     |-> calculateFilenameScore(options.a, parsedQuery),
                       b     |-> calculateFilenameScore(options.b, parsedQuery) ]
    /\ pc' = "named"
    /\ UNCHANGED <<options, files, idx, matches, skipped>>

NextFilename == ScoreNames

SpecFilename == InitFilename /\ [][NextFilename]_vars

\* the lowercased basename of the path, with or without its extension, is t
NamedExactly(path, t) ==
    ToLower(Basename(path)) = t \/ ToLower(BasenameNoExt(path)) = t

\* t occurs in the lowercased basename of the path, which is not t
NamedPartly(path, t) ==
    /\ Includes(ToLower(Basename(path)), t)
    /\ ~NamedExactly(path, t)

\* what the term t adds to a filename score
TermContribution(scored, t) ==
    SumSeq([k \in 1..Len(scored.reasons) |->
        IF scored.reasons[k].what # "phrase" /\ scored.reasons[k].term = t
        THEN scored.reasons[k].contribution ELSE 0])

\* C14 as stated: for every query and every term t of it, a file whose
\* basename is t gets a strictly higher filename score than a file in whose
\* basename t is only a proper substring.
C14_ExactNameScoresHigher ==
    pc = "named" =>
        \A t \in Range(result.query.terms) :
            NamedExactly(options.a, t) /\ NamedPartly(options.b, t) =>
                result.a.score > result.b.score

\* C14, amended: what the term t itself adds to the filename score is
\* strictly higher for the file named t than for the file in whose basename
\* t is a proper substring; the whole filename score is strictly higher when
\* t is the only term and the query has no exact phrase.
C14_ExactNameContributesMore ==
    pc = "named" =>
        \A t \in Range(result.query.terms) :
            NamedExactly(options.a, t) /\ NamedPartly(options.b, t) =>
                /\ TermContribution(result.a, t) > TermContribution(result.b, t)
                /\ result.query.terms = <<t>> /\ result.query.exactTerms = <<>>
                       => result.a.score > result.b.score

\* a file named by a term without its extension against a file that holds
\* the term in a longer name, under a query of that one term
C14_Witness ==
    /\ pc = "named"
    /\ result.query.terms = <<S("auth")>>
    /\ result.query.exactTerms = <<>>
    /\ options.a = S("/w/src/Auth.ts")
    /\ options.b = S("/w/lib/oauth.ts")
    /\ result.a.score > result.b.score
    /\ result.b.score > 0



----------------------------------------------------------------------------
(* Properties of the searches over the second tree *)

ConfigTs == CHOOSE f \in TreeFilePool : f.path = S("/w/src/db/config.ts")
MathTs == CHOOSE f \in TreeFilePool : f.path = S("/w/src/utils/math.ts")

\* the positions of a path in a list of matches
PositionsOf(path, ms) == {k \in 1..Len(ms) : ms[k].path = path}

\* the search of the scenario has returned: the query is "database config",
\* configuration files are included, and both files were candidates
DatabaseConfigSearched ==
    /\ pc = "done"
    /\ options.query = Str("database config")
    /\ Opt(options, "includeConfigs") = <<TRUE>>
    /\ \E i, j \in 1..Len(files) : files[i] = ConfigTs /\ files[j] = MathTs

\* C11: the query "database config" with includeConfigs = true over a tree
\* with src/db/config.ts and src/utils/math.ts returns config.ts, and ranks
\* it strictly above math.ts: before it and with a higher score.
C11_ConfigRanksAboveMath ==
    DatabaseConfigSearched =>
        /\ PositionsOf(ConfigTs.path, result.files) # {}
        /\ \A i \in PositionsOf(ConfigTs.path, result.files),
              j \in PositionsOf(MathTs.path, result.files) :
               i < j /\ result.files[i].score > result.files[j].score

\* math.ts came first in the candidate list and is returned second
C11_Witness ==
    /\ DatabaseConfigSearched
    /\ files[1] = MathTs
    /\ Len(result.files) >= 2
    /\ result.files[1].path = ConfigTs.path
    /\ result.files[2].path = MathTs.path

\* the line snippets a reason carries
SnippetsOf(reason) ==
    IF "lineSnippets" \in DOMAIN reason THEN reason.lineSnippets ELSE <<>>

\* the number of line snippets of a FileMatch, over all of its reasons
SnippetCount(match) ==
    SumSeq([k \in 1..Len(match.reasons) |-> Len(SnippetsOf(match.reasons[k]))])

\* the cap the caller configured: maxSnippetsPerFile, 3 when omitted
ConfiguredMaxSnippets(opts) ==
    IF Opt(opts, "maxSnippetsPerFile") = <<>> THEN DefaultMaxSnippetsPerFile
    ELSE opts.maxSnippetsPerFile[1]

\* C12: with line previews enabled a FileMatch carries at most
\* maxSnippetsPerFile line snippets over all of its reasons (3 when the
\* option is omitted); with line previews disabled no reason carries one.
C12_SnippetsWithinCap ==
    \A m \in Computed :
        IF Opt(options, "includeLinePreviews") = <<TRUE>>
        THEN SnippetCount(m) <= ConfiguredMaxSnippets(options)
        ELSE \A k \in 1..Len(m.reasons) : "lineSnippets" \notin DOMAIN m.reasons[k]

\* the lines of the file a FileMatch is about
LinesOf(match) ==
    LET file == CHOOSE f \in TreeFilePool : f.path = match.path
    IN  SplitOn(file.content, {"\n"})

\* the snippet points at a line of the file that holds a term or an exact
\* phrase of the query, and shows that line trimmed
SnippetIsMatchedLine(snippet, lines, lineCount, query) ==
    /\ snippet.lineNumber \in 1..lineCount
    /\ snippet.lineNumber \in 1..Len(lines)
    /\ \E x \in Range(query.terms) \cup Range(query.exactTerms) :
           Includes(ToLower(lines[snippet.lineNumber]), ToLower(x))
    /\ snippet.content = Trim(lines[snippet.lineNumber])

\* C13: every LineSnippet has a lineNumber in 1..lineCount, the line of that
\* number contains a term or an exact phrase of the query, letter case
\* ignored, and content is that line trimmed.
C13_SnippetsAreMatchedLines ==
    \A m \in Computed :
        \A k \in 1..Len(m.reasons) :
            \A n \in 1..Len(SnippetsOf(m.reasons[k])) :
                SnippetIsMatchedLine(SnippetsOf(m.reasons[k])[n], LinesOf(m),
                                     m.metadata.lineCount,
                                     parseQuery(options.query))

\* a snippet of the last line of a cluster of two matched lines with an
\* unmatched line between them, shown without its indentation
C13_Witness ==
    \E m \in Computed :
        \E k \in 1..Len(m.reasons) :
            \E n \in 1..Len(SnippetsOf(m.reasons[k])) :
                LET snippet == SnippetsOf(m.reasons[k])[n]
                IN  /\ snippet.lineNumber = 7
                    /\ snippet.content # LinesOf(m)[7]
                    /\ snippet.context.before = <<S("x()")>>



----------------------------------------------------------------------------
(* The classifiers and detectLanguage on a path and a respelling of it *)

(***************************************************************************)
(* In this specification options holds a path and the same path with some  *)
(* of its letters changed in case, and result what isTestFile,             *)
(* isConfigFile, isDocFile and detectLanguage return for each of the two.  *)
(***************************************************************************)

ToUpperChar(c) ==
    IF \E i \in 1..26 : LowerChars[i] = c
    THEN UpperChars[CHOOSE i \in 1..26 : LowerChars[i] = c]
    ELSE c

ToUpper(s) == [i \in 1..Len(s) |-> ToUpperChar(s[i])]

\* s with the letter at position k changed in case
FlipCase(s, k) ==
    [i \in 1..Len(s) |->
        IF i # k THEN s[i]
        ELSE IF ToLowerChar(s[i]) # s[i] THEN ToLowerChar(s[i])
        ELSE ToUpperChar(s[i])]

\* s in lower case, in upper case, and with any one letter changed in case
CaseVariants(s) ==
    ({ToLower(s), ToUpper(s)} \cup {FlipCase(s, k) : k \in 1..Len(s)}) \ {s}

CaseDirs == {"", "src/", "Docs/", "tests/"}
CaseNames == {
    "user.ts", "User.TEST.ts", "x.h", "x.HPP", "a.cpp", "user.xyz",
    "Makefile", "Dockerfile", "a.dockerfile", "README", "readme.md",
    ".eslintrc", "x.PY" }

CasePaths == {S(d) \o S(n) : d \in CaseDirs, n \in CaseNames}

InitCase ==
    /\ \E path \in CasePaths : \E v \in CaseVariants(path) :
           options = [filePath |-> path, variant |-> v]
    /\ files = <<>>
    /\ idx = 0
    /\ matches = <<>>
    /\ skipped = {}
    /\ result = NoResult
    /\ pc = "classify"

\* what the four functions return for one path
Classification(filePath) ==
    [ isTest   |-> isTestFile(filePath),
      isConfig |-> isConfigFile(filePath),
      isDoc    |-> isDocFile(filePath),
      language |-> detectLanguage(filePath) ]

\* the four functions called on the path and on its respelling
ClassifyPair ==
    /\ pc = "classify"
    /\ result' = [ path    |-> Classification(options.filePath),
                   variant |-> Classification(options.variant) ]
    /\ pc' = "classified"
    /\ UNCHANGED <<options, files, idx, matches, skipped>>

NextCase == ClassifyPair

SpecCase == InitCase /\ [][NextCase]_vars

\* C21: isTestFile, isConfigFile, isDocFile and detectLanguage return the
\* same result for a path and for the path with letters changed in case.
C21_CaseInsensitive ==
    pc = "classified" => result.variant = result.path

\* a path whose upper-case respelling is a test file of a known language
C21_Witness ==
    /\ pc = "classified"
    /\ options.filePath = S("User.TEST.ts")
    /\ options.variant = S("USER.TEST.TS")
    /\ result.variant.isTest
    /\ result.variant.language = <<S("typescript")>>
    /\ result.path = result.variant

\* the positions of the language table whose list holds the extension
LanguagesOf(ext) ==
    {k \in 1..Len(LANGUAGE_EXTENSIONS) :
        \E e \in 1..Len(LANGUAGE_EXTENSIONS[k].exts) :
            LANGUAGE_EXTENSIONS[k].exts[e] = ext}

\* the language of the least position in ks, or none when ks is empty
FirstLanguage(ks, none) ==
    IF ks = {} THEN none
    ELSE <<LANGUAGE_EXTENSIONS[CHOOSE k \in ks : \A j \in ks : k <= j].lang>>

\* C22 as stated: detectLanguage returns the first language, in table
\* order, whose list contains the lowercased extension, and the string
\* "unknown" when no language matches.
C22_FirstLanguageOrUnknown ==
    pc = "classified" =>
        result.path.language =
            FirstLanguage(LanguagesOf(ToLower(Extname(options.filePath))),
                          <<S("unknown")>>)

\* C22 as amended: detectLanguage returns the first language, in table
\* order, whose list contains the lowercased extension, and undefined when
\* no language matches.
C22_FirstLanguageOrUndefined ==
    pc = "classified" =>
        result.path.language =
            FirstLanguage(LanguagesOf(ToLower(Extname(options.filePath))),
                          <<>>)

\* '.h' is in the lists of c and of cpp and gives c; the respelled
\* Makefile has no extension and gives undefined
C22_Witness ==
    /\ pc = "classified"
    /\ options.filePath = S("src/x.h")
    /\ result.path.language = <<S("c")>>
    /\ Cardinality(LanguagesOf(S(".h"))) = 2
    /\ detectLanguage(S("Makefile")) = <<>>



----------------------------------------------------------------------------
(* Properties of searchFiles on faulty and large candidates *)

\* the maxFileSize option, 1 MiB when omitted
ConfiguredMaxFileSize(opts) == Coalesce(opts.maxFileSize, DefaultMaxFileSize)

\* the content of the file cannot be read
Unreadable(file) == file.fault = "read"

\* C23: a candidate whose size exceeds maxFileSize, whose content cannot be
\* read, or for which a per-file step raises an error never appears in
\* result.files.
C23_FaultyCandidatesSkipped ==
    pc = "done" =>
        \A i \in 1..Len(files) :
            (\/ files[i].size > ConfiguredMaxFileSize(options)
             \/ Unreadable(files[i])
             \/ StatFailed(files[i])
             \/ Throws(files[i], options))
            => files[i].path \notin PathsOf(result.files)


\* the reasons of the filename, filepath and metadata scorers for a file
OtherReasons ==
    [f \in FilePool |-> [q \in QueryPool |->
        calculateFilenameScore(f.path, ParsedQueries[q]).reasons
        \o calculateFilepathScore(f.path, ParsedQueries[q]).reasons
        \o calculateMetadataScore(Metadata[f], ParsedQueries[q]).reasons]]

\* the reasons the content scorer produces on the text of a file
ContentReasons ==
    [f \in FilePool |-> [q \in QueryPool |->
        ScoreContent(ReadOrEmpty(f), ParsedQueries[q], <<>>).reasons]]

\* content search is enabled and the file is smaller than the configured
\* maximum file size
ContentDue(file, opts) ==
    EffSearchContent(opts) /\ file.size < ConfiguredMaxFileSize(opts)

\* C24: the content scorer contributes to a file's score exactly when
\* content search is enabled and the file's size is below the configured
\* maximum file size (the maxFileSize option, 1 MiB when omitted).
C24_ContentScoredBelowMaxFileSize ==
    \A i \in Scored :
        AllReasonsOf(files[i], options) =
            OtherReasons[files[i]][options.query]
            \o (IF ContentDue(files[i], options)
                THEN ContentReasons[files[i]][options.query]
                ELSE <<>>)



----------------------------------------------------------------------------
(* calculateContentScore called on its own *)

(***************************************************************************)
(* In this specification options holds a query and the text of a file, and *)
(* result the parsed query with what calculateContentScore returns for the *)
(* text under it (threw: the call raised instead of returning).            *)
(***************************************************************************)

ContentQueries == {"auth", "a.c", "c++", "User", "auth user"}

ContentTexts == {
    "", "auth", "Auth AUTH", "auth auth auth", "authauthauthauth",
    "auth auth auth auth auth", "auth auth Auth auth auth auth auth",
    "function auth(", "def  auth (x)", "functions auth(", "FUNCs  auth()",
    "fn\tauth(", "class User", "classuser {", "interface\nuser;",
    "enum Users", "abc a.c", "abc", "c++ code", "// the user\n# auth" }

InitContent ==
    /\ options \in [ query : {Str(q) : q \in ContentQueries},
                     content : {S(c) : c \in ContentTexts} ]
    /\ files = <<>>
    /\ idx = 0
    /\ matches = <<>>
    /\ skipped = {}
    /\ result = NoResult
    /\ pc = "content"

\* calculateContentScore(filePath, parseQuery(query)) on a file with the
\* text options.content, without metadata content and without snippets
ScoreText ==
    /\ pc = "content"
    /\ LET parsedQuery == parseQuery(options.query)
       IN  result' = [ query  |-> parsedQuery,
                       scored |-> calculateContentScore(options.content,
                                      parsedQuery,
                                      [lineIndex |-> <<>>, content |-> <<>>],
                                      0) ]
    /\ pc' = "scored"
    /\ UNCHANGED <<options, files, idx, matches, skipped>>

NextContent == ScoreText

SpecContent == InitContent /\ [][NextContent]_vars

\* the number of occurrences of t in s from position i on, counted from left
\* to right without overlap, t matched character for character
RECURSIVE LiteralCountFrom(_, _, _)
LiteralCountFrom(s, t, i) ==
    IF t = <<>> \/ i + Len(t) - 1 > Len(s) THEN 0
    ELSE IF SubSeq(s, i, i + Len(t) - 1) = t
         THEN 1 + LiteralCountFrom(s, t, i + Len(t))
         ELSE LiteralCountFrom(s, t, i + 1)

\* the contributions, in halves of a point, of the reasons of the given
\* type that the scorer produced for the term t
ContributionsFor(scored, type, what, t) ==
    LET hits == SelectSeq(scored.reasons,
                    LAMBDA r : r.type = type /\ r.what = what /\ r.term = t)
    IN  [k \in 1..Len(hits) |-> hits[k].contribution]

\* C25: for every ordinary term t the content scorer's contribution is
\* min(15, 15 * n / 5), n the number of case-insensitive literal occurrences
\* of t in the content; no reason is produced when n = 0.
C25_LiteralOccurrences ==
    pc = "scored" =>
        \A t \in Range(result.query.terms) :
            LET n == LiteralCountFrom(ToLower(options.content), t, 1)
            IN  /\ ~result.scored.threw
                /\ ContributionsFor(result.scored, "content", "term", t) =
                       IF n = 0 THEN <<>>
                       ELSE <<Min(2 * W_content, (2 * W_content * n) \div 5)>>


\* s holds, somewhere, one of the keywords followed by one or more white
\* space characters and then by rest
DeclaredIn(s, keywords, rest) ==
    \E k \in 1..Len(keywords) : \E i \in 1..Len(s) : \E w \in 1..Len(s) :
        /\ OccursAt(s, keywords[k], i)
        /\ \A j \in 1..w : i + Len(keywords[k]) + j - 1 <= Len(s)
                           /\ s[i + Len(keywords[k]) + j - 1] \in WhiteSpace
        /\ OccursAt(s, rest, i + Len(keywords[k]) + w)

\* C26: for every ordinary term t the content scorer adds a 'function'
\* reason of contribution 15 when the content holds one of function, def,
\* fn, func followed by whitespace, t and '(', and a 'class' reason of
\* contribution 15 when it holds one of class, interface, struct, enum
\* followed by whitespace and t.
C26_DeclarationsRewarded ==
    pc = "scored" =>
        \A t \in Range(result.query.terms) :
            /\ DeclaredIn(options.content, funcKeywords, t \o S("("))
                   => ContributionsFor(result.scored, "function", "named", t)
                          = <<2 * W_function>>
            /\ DeclaredIn(options.content, classKeywords, t)
                   => ContributionsFor(result.scored, "class", "named", t)
                          = <<2 * W_class>>



----------------------------------------------------------------------------
(* extractLineSnippets called on its own *)

(***************************************************************************)
(* In this specification options holds a query, the text of a file and a   *)
(* snippet cap, and result the parsed query, the matched lines and the     *)
(* snippets extractLineSnippets returns for the text and its line index.   *)
(***************************************************************************)

\* the longest text, in lines
MaxLines == 10

HitLine == S("  auth()")
MissLine == S("x = 1")

\* the texts of n lines, each a line that names auth or one that does not
RECURSIVE TextsOf(_)
TextsOf(n) ==
    IF n = 1 THEN {HitLine, MissLine}
    ELSE {text \o S("\n") \o line :
              text \in TextsOf(n - 1), line \in {HitLine, MissLine}}

\* texts in which a term is part of a longer word, is shorter than three
\* characters, or is a phrase of two words
SnippetExamples == {
    [query |-> Str("database"),
     content |-> S("export function loadDatabaseConfig() {}")],
    [query |-> Str("db"), content |-> S("x\nconst db = open()")],
    [query |-> Str("\"user service\""), content |-> S("the user service\n\nx")],
    [query |-> Str("Auth"), content |-> S("AUTH\nauth_token\n\n\n\nauth.login")] }

SnippetInputs ==
    {[query |-> Str("auth"), content |-> text] :
         text \in UNION {TextsOf(n) : n \in 1..MaxLines}}
    \cup SnippetExamples

SnippetCaps == {1, 2, 3}

InitSnippets ==
    /\ \E in \in SnippetInputs : \E cap \in SnippetCaps :
           options = [query |-> in.query, content |-> in.content,
                      maxSnippets |-> cap]
    /\ files = <<>>
    /\ idx = 0
    /\ matches = <<>>
    /\ skipped = {}
    /\ result = NoResult
    /\ pc = "extract"

\* the parsed query, the matched lines and the snippets of one call
ExtractWith(content, lineIndex, parsedQuery, maxSnippets) ==
    [ query        |-> parsedQuery,
      matchedLines |-> MatchedLines(lineIndex, parsedQuery),
      snippets     |-> extractLineSnippets(content, lineIndex, parsedQuery,
                                           maxSnippets) ]

\* extractLineSnippets(content, buildLineIndex(content.split('\n')),
\* parseQuery(query), maxSnippets)
ExtractSnippets ==
    /\ pc = "extract"
    /\ result' = ExtractWith(options.content,
                              buildLineIndex(SplitOn(options.content, {"\n"})),
                              parseQuery(options.query), options.maxSnippets)
    /\ pc' = "extracted"
    /\ UNCHANGED <<options, files, idx, matches, skipped>>

NextSnippets == ExtractSnippets

SpecSnippets == InitSnippets /\ [][NextSnippets]_vars

\* the numbers of the lines of the text that contain a term or a phrase of
\* the query, letter case ignored
LinesContaining(content, query) ==
    LET lines == SplitOn(content, {"\n"})
    IN  {k \in 1..Len(lines) :
            \E w \in Range(query.terms) \cup Range(query.exactTerms) :
                Includes(ToLower(lines[k]), ToLower(w))}

\* C27: the matched lines of extractLineSnippets are all the lines that
\* contain an ordinary term or an exact phrase of the query; whenever some
\* line contains one, at least one snippet is returned (cap >= 1).
C27_MatchedLinesAreContainingLines ==
    pc = "extracted" =>
        LET containing == LinesContaining(options.content, result.query)
        IN  /\ result.matchedLines = containing
            /\ containing # {} /\ options.maxSnippets >= 1
                   => result.snippets # <<>>

\* a and b, a <= b, are in one group: every two neighbouring matched lines
\* from a to b are at most 3 apart
InOneGroup(matched, a, b) ==
    \A x, y \in matched :
        (a <= x /\ x < y /\ y <= b /\ ~\E z \in matched : x < z /\ z < y)
            => y - x <= 3

\* the maximal runs of the matched lines
GroupsOf(matched) ==
    {{b \in matched : InOneGroup(matched, Min(a, b), Max(a, b))} : a \in matched}

\* the element at index floor(size / 2) of the group, counted from 0 in
\* ascending order
AnchorOf(group) ==
    CHOOSE x \in group :
        Cardinality({y \in group : y < x}) = Cardinality(group) \div 2

\* C28: extractLineSnippets groups the matched lines into maximal runs of
\* lines at most 3 apart, returns one snippet for each of the N groups with
\* the most members, and anchors each at index floor(size/2) of its group.
C28_SnippetsOfLargestGroups ==
    pc = "extracted" =>
        LET groups == GroupsOf(result.matchedLines)
            anchors == [k \in 1..Len(result.snippets) |->
                           result.snippets[k].lineNumber]
            selected == {g \in groups : AnchorOf(g) \in Range(anchors)}
        IN  /\ Len(anchors) = Min(options.maxSnippets, Cardinality(groups))
            /\ NoDuplicates(anchors)
            /\ \A k \in 1..Len(anchors) : \E g \in groups : anchors[k] = AnchorOf(g)
            /\ \A g \in selected : \A h \in groups \ selected :
                   Cardinality(h) <= Cardinality(g)

\* groups of 1, 1 and 2 lines and a cap of 2: the first snippet is anchored
\* in the last group, the largest, and one group of 1 line is left out
C28_Witness ==
    /\ pc = "extracted"
    /\ options.maxSnippets = 2
    /\ result.matchedLines = {1, 5, 9, 10}
    /\ GroupsOf(result.matchedLines) = {{1}, {5}, {9, 10}}
    /\ Len(result.snippets) = 2
    /\ result.snippets[1].lineNumber = 10
    /\ result.snippets[2].lineNumber = 1



----------------------------------------------------------------------------
(* Scores and reasons of the files scored by searchFiles *)

\* the sum of the contributions of a list of reasons, in halves of a point
ContributionSum(reasons) ==
    SumSeq([k \in 1..Len(reasons) |-> reasons[k].contribution])

\* Math.round(Math.min(100, sum)) of a sum given in halves of a point
ClampedRounded(sum) == (Min(2 * ScoreCeiling, sum) + 1) \div 2

\* C29: a FileMatch's score is round(min(100, sum of the contributions of
\* all reasons produced for the file)); every reason has a contribution
\* above 0, a file without reasons has score 0, and a file with at most 5
\* reasons has the clamped rounded sum of the contributions it lists.
C29_ScoreIsSumOfReasons ==
    \A i \in Scored :
        LET match == MatchOf(files[i], options)
            all == AllReasonsOf(files[i], options)
        IN  /\ match.score = ClampedRounded(ContributionSum(all))
            /\ \A k \in 1..Len(all) : all[k].contribution > 0
            /\ all = <<>> => match.score = 0
            /\ Len(all) <= 5 =>
                   match.score = ClampedRounded(ContributionSum(match.reasons))

\* a search that scored a file with more than 5 reasons, whose score is
\* above the sum it lists, and a file with 1 to 5 reasons
C29_Witness ==
    /\ pc = "done"
    /\ \E i, j \in Scored :
           /\ Len(AllReasonsOf(files[i], options)) > 5
           /\ MatchOf(files[i], options).score >
                  ClampedRounded(ContributionSum(MatchOf(files[i], options).reasons))
           /\ Len(AllReasonsOf(files[j], options)) \in 1..5
           /\ MatchOf(files[j], options).score > 0



----------------------------------------------------------------------------
(* calculateFileScore on one file of a tree placed under two roots *)

(***************************************************************************)
(* In this specification options holds a query, two root directories and a *)
(* file of the tree given by its path below the root, and result the       *)
(* FileMatch the loop of searchFiles computes for the file when the tree   *)
(* lies under the one root and when it lies under the other.               *)
(***************************************************************************)

RelocateRoots == {"/w", "/opt/x", "/home/auth/w", "/srv/tests/app", "/data/docs/p"}

RelocateQueries == {"auth", "user test", "api docs", "login .ts", "main"}

\* the files of the tree: path below the root, size and text
RelocateFiles == {
    [relativePath |-> S("src/user.ts"), size |-> 30,
     content |-> S("export const user = 1")],
    [relativePath |-> S("src/auth/login.ts"), size |-> 40,
     content |-> S("// auth\nexport function login() {}")],
    [relativePath |-> S("lib/api.md"), size |-> 20, content |-> S("# the api")],
    [relativePath |-> S("main.py"), size |-> 10, content |-> S("def main():")],
    [relativePath |-> S("auth.ts"), size |-> 10, content |-> S("user")] }

InitRelocate ==
    /\ \E q \in RelocateQueries : \E a, b \in RelocateRoots :
       \E f \in RelocateFiles :
           /\ a # b
           /\ options = [query |-> Str(q), rootPath |-> S(a),
                         otherRoot |-> S(b), file |-> f]
    /\ files = <<>>
    /\ idx = 0
    /\ matches = <<>>
    /\ skipped = {}
    /\ result = NoResult
    /\ pc = "place"

\* the candidate the traversal lists for the file when the tree lies under
\* rootPath: glob(..., {cwd: rootPath, absolute: true})
PlacedUnder(rootPath, file) ==
    [ path    |-> rootPath \o S("/") \o file.relativePath,
      size    |-> file.size,
      content |-> file.content,
      fault   |-> "none" ]

\* the body of the loop of searchFiles for the file under rootPath:
\* extractMetadata and calculateFileScore with content search on
ScoredUnder(rootPath, file, parsedQuery) ==
    calculateFileScore(PlacedUnder(rootPath, file).path, file.content,
                       parsedQuery,
                       extractMetadata(PlacedUnder(rootPath, file), FALSE),
                       rootPath, TRUE, 0)

\* the same search run on the tree under rootPath and under otherRoot
ScoreBothPlaces ==
    /\ pc = "place"
    /\ result' = [ here  |-> ScoredUnder(options.rootPath, options.file,
                                         parseQuery(options.query)),
                   there |-> ScoredUnder(options.otherRoot, options.file,
                                         parseQuery(options.query)) ]
    /\ pc' = "placed"
    /\ UNCHANGED <<options, files, idx, matches, skipped>>

NextRelocate == ScoreBothPlaces

SpecRelocate == InitRelocate /\ [][NextRelocate]_vars

\* C30: a file's score and reasons depend only on the query, the options,
\* the file's content and size and its path relative to the search root:
\* the same tree under a different parent directory gives the file the same
\* relative path, score and reasons.
C30_ScoreIndependentOfRoot ==
    pc = "placed" =>
        /\ result.here.relativePath = result.there.relativePath
        /\ result.here.score = result.there.score
        /\ result.here.reasons = result.there.reasons


=============================================================================
